---- MODULE Spec2Model ----
(***************************************************************************)
(* A model of snoop (brandonapol/snoop): the directory scanner, the        *)
(* manifest parsers, the npm and OSV audit runners, the command's run      *)
(* loop and the JSON formatter's aggregate summary.                        *)
(*                                                                         *)
(* Each component has its own specification over its own variables; the    *)
(* variables of the other components keep their initial values.            *)
(*   SpecAudit  one OSV-backed manifest audit (Python, Go or Maven)        *)
(*   SpecScan   scanner.New and Scanner.Scan over a small directory tree   *)
(*   SpecReq    ParseRequirementsTxt over a file read line by line         *)
(*   SpecRun    one run of the command: npm check, audit loops, JSON output *)
(*   SpecPom    ParsePomXML and the Maven audit of what it returned        *)
(*   SpecLev    one call of LevenshteinDistance                            *)
(*   SpecTypo   one call of CheckTyposquatting                             *)
(*   SpecMaint  one call of AnalyzeMaintainerRisk                          *)
(*   SpecFetch  a sequence of FetchPackageMetadata calls                   *)
(*   SpecFilter one call of FilterBySeverity                               *)
(*   SpecManifest  ParsePipfile, ParsePyprojectToml and ParseGoMod, line by*)
(*                 line                                                    *)
(*   SpecFix    one call of extractFixVersions                             *)
(*   SpecReport one call of GenerateSecurityReport                         *)
(***************************************************************************)
EXTENDS Integers, Sequences, FiniteSets, TLC

VARIABLES
    \* ---- one OSV-backed manifest audit (audit/python.go, go.go, maven.go)
    aPc,            \* "idle" | "loop" | "done": position inside Run*Audit
    aEco,           \* osv.Ecosystem of the running audit: "PyPI" | "Go" | "Maven"
    manifestType,   \* the manifestType argument
    packages,       \* the packages the parser returned
    pkgIdx,         \* index of the next package of the range loop
    result,         \* the *AuditResult under construction
    queryLog,       \* the QueryPackage calls made so far, with their outcome
    \* ---- the directory scanner (scanner/scanner.go) and the file system
    sPc,            \* "build" | "ready" | "failed" | "walking" | "done"
    rootName,       \* base name of the root path
    root,           \* the root path on disk: [kind, err]
    entries,        \* the entries below the root: a set of [path, kind, err]
    newErr,         \* the error New returned
    pending,        \* the paths filepath.Walk has still to reach, next first
    visited,        \* the paths the walk function was called with, in order
    Files,          \* ScanResult.Files
    Errors,         \* ScanResult.Errors (the path of each error)
    scanErr,        \* the error Scan returned
    \* ---- ParseRequirementsTxt (audit/python_parser.go) and the file it reads
    rPc,            \* "idle" | "reading" | "done"
    rLines,         \* the lines read so far, each with the tokens it was written from
    rPackages,      \* the packages slice
    rErr,           \* the error ParseRequirementsTxt returned
    \* ---- one run of the command (main.go) and its environment
    runPc,          \* "start" | "audit" | "done"
    npmInstalled,   \* whether `npm` can be executed on this machine
    severity,       \* the --severity flag
    scanned,        \* result.Files of the scan
    hasNodeJS, hasPython, hasGo, hasMaven,
    todo,           \* the manifests the audit loops have still to reach
    auditResults, pythonAuditResults, goAuditResults, mavenAuditResults,
    totalVulnerabilities,
    hasErrors,
    npmRuns,        \* every call of RunAudit: how the command ended, what was returned
    message,        \* the line an early return prints
    jsonOut,        \* what JSONFormatter.Format built ("none" before)
    \* ---- ParsePomXML (audit/maven_parser.go) and the pom.xml it reads
    pomPc,          \* "idle" | "parsed" | "audited"
    pomDoc,         \* the <dependency> elements of project/dependencies, in order
    pomDeps,        \* the dependencies ParsePomXML returned
    pomErr,         \* the error ParsePomXML returned
    \* ---- one call of LevenshteinDistance (security.go)
    levPc,          \* "called" | "returned"
    s1, s2,         \* the arguments
    levDistance,    \* the returned distance
    \* ---- one call of CheckTyposquatting (security.go)
    typoPc,         \* "called" | "returned"
    packageName,    \* the arguments
    threshold,
    typoRisk,       \* the returned *TyposquattingRisk (found is FALSE for nil)
    \* ---- one call of AnalyzeMaintainerRisk (security.go)
    maintPc,        \* "called" | "returned"
    metadata,       \* the argument: [Name, Maintainers, LastModified]
    now,            \* time.Now() during the call
    maintRisk,      \* the returned *MaintainerRisk (found is FALSE for nil)
    \* ---- FetchPackageMetadata (security.go), its cache and the registry
    metadataCache,  \* the package-level map: package name -> *PackageMetadata
    fetches,        \* every call so far: its argument, what it returned, whether it sent a request
    \* ---- one call of FilterBySeverity (audit/npm.go)
    filterPc,       \* "called" | "returned"
    unfiltered,     \* the vulnerabilities argument
    minimum,        \* the minSeverity argument
    filtered,       \* the returned slice
    \* ---- a line-oriented manifest parser (ParsePipfile, ParsePyprojectToml, ParseGoMod)
    parsing,        \* the function that runs: "" | "ParsePipfile" | "ParsePyprojectToml" | "ParseGoMod"
    mfPc,           \* "idle" | "reading" | "done"
    mfLines,        \* the lines read so far, each with what it was written as
    inSection,      \* inPackagesSection, inDependenciesSection or inRequireBlock
    mfPackages,     \* the packages (modules) slice
    mfErr,          \* the error returned
    \* ---- one call of extractFixVersions
    fixPc,          \* "called" | "returned"
    fixVuln,        \* vuln.Affected: the affected entries, each a list of ranges, each a list of events
    fixVersions,    \* the returned list
    \* ---- one call of GenerateSecurityReport (security.go)
    reportPc,       \* "called" | "checked" | "fetched" | "returned" | "panicked"
    report          \* the *SecurityReport under construction

auditVars == <<aPc, aEco, manifestType, packages, pkgIdx, result, queryLog>>
scanVars == <<sPc, rootName, root, entries, newErr, pending, visited, Files, Errors, scanErr>>
reqVars == <<rPc, rLines, rPackages, rErr>>
runVars == <<runPc, npmInstalled, severity, scanned, hasNodeJS, hasPython, hasGo, hasMaven,
             todo, auditResults, pythonAuditResults, goAuditResults, mavenAuditResults,
             totalVulnerabilities, hasErrors, npmRuns, message, jsonOut>>
pomVars == <<pomPc, pomDoc, pomDeps, pomErr>>
levVars == <<levPc, s1, s2, levDistance>>
typoVars == <<typoPc, packageName, threshold, typoRisk>>
maintVars == <<maintPc, metadata, now, maintRisk>>
fetchVars == <<metadataCache, fetches>>
filterVars == <<filterPc, unfiltered, minimum, filtered>>
manifestVars == <<parsing, mfPc, mfLines, inSection, mfPackages, mfErr>>
fixVars == <<fixPc, fixVuln, fixVersions>>
reportVars == <<reportPc, report>>
vars == <<auditVars, scanVars, reqVars, runVars, pomVars, levVars, typoVars, maintVars, fetchVars, filterVars, manifestVars, fixVars, reportVars>>

\* ------------------------------------------------------------------ bounds
\* most packages a parsed manifest holds
MaxPkgs == 2
\* most vulnerabilities one OSV response holds
MaxVulns == 2
\* most entries the scanned tree holds below its root
MaxEntries == 3
\* most entries of the tree that raise an I/O error
MaxErrs == 1
\* most lines a requirements.txt holds
MaxLines == 2
\* most <dependency> elements a pom.xml holds
MaxDeps == 2
\* longest argument of LevenshteinDistance
MaxLen == 3
\* largest threshold CheckTyposquatting is called with
MaxThreshold == 3

\* ------------------------------------------------------------- helpers
SeqsUpTo(S, n) == UNION {[1..k -> S] : k \in 0..n}

\* the zero value of an error
NoError == "nil"

\* ---------------------------------------------------- manifest kinds
\* scanner.ManifestType constants: the exact file names the scanner detects
ManifestKinds ==
    {"package.json", "package-lock.json", "yarn.lock", "pnpm-lock.yaml",
     "requirements.txt", "Pipfile", "Pipfile.lock", "poetry.lock",
     "pyproject.toml", "go.mod", "go.sum", "pom.xml"}

\* ---------------------------------------------------- VulnerabilitySummary
ZeroSummary ==
    [Info |-> 0, Low |-> 0, Moderate |-> 0, High |-> 0, Critical |-> 0, Total |-> 0]

SummaryBuckets(s) == s.Critical + s.High + s.Moderate + s.Low + s.Info

\* ---------------------------------------------------- OSV backend
\* osv.Vulnerability values a response may carry (ID and Aliases are the
\* fields the audit reads); V2's first alias is empty, its second is a CVE
OsvVulns ==
    {[ID |-> "V1", Aliases |-> <<>>],
     [ID |-> "V2", Aliases |-> <<"", "CVE-1">>]}

\* the Vulns of a successful QueryResponse
OsvResponses == SeqsUpTo(OsvVulns, MaxVulns)

\* outcome of Client.QueryPackage: an error (network error, non-200 status,
\* unreadable or unparsable body) or a response
QueryOutcomes ==
    {[ok |-> FALSE, Vulns |-> <<>>]} \cup {[ok |-> TRUE, Vulns |-> v] : v \in OsvResponses}

RECURSIVE FirstNonEmpty(_)
FirstNonEmpty(aliases) ==
    IF aliases = <<>> THEN FALSE
    ELSE IF Len(Head(aliases)) > 0 THEN TRUE
    ELSE FirstNonEmpty(Tail(aliases))

\* mutant: a vulnerability without a non-empty alias is rated "moderate"
GetSeverityLevelByAlias(v) ==
    IF FirstNonEmpty(v.Aliases) THEN "high" ELSE "moderate"

\* Vulnerability.GetSeverityLevel: "high" at the first non-empty alias, and
\* "high" by default
GetSeverityLevel(v) ==
    IF FirstNonEmpty(v.Aliases) THEN "high" ELSE "high"

\* the switch that updates the summary for one vulnerability, then Total++
CountSeverity(sum, sev) ==
    LET bumped ==
            CASE sev = "critical" -> [sum EXCEPT !.Critical = @ + 1]
              [] sev = "high" -> [sum EXCEPT !.High = @ + 1]
              [] sev \in {"moderate", "medium"} -> [sum EXCEPT !.Moderate = @ + 1]
              [] sev = "low" -> [sum EXCEPT !.Low = @ + 1]
              [] OTHER -> [sum EXCEPT !.High = @ + 1]
    IN  [bumped EXCEPT !.Total = @ + 1]

\* the body of "for _, vuln := range response.Vulns": append the converted
\* vulnerability and count it
RECURSIVE ProcessVulns(_, _, _)
ProcessVulns(r, pkg, vulns) ==
    IF vulns = <<>> THEN r
    ELSE LET vuln == Head(vulns)
             pv == [Name |-> pkg.Name, Version |-> pkg.Version, ID |-> vuln.ID,
                    Aliases |-> vuln.Aliases, Severity |-> GetSeverityLevel(vuln)]
             r1 == [r EXCEPT !.Vulnerabilities = Append(@, pv),
                             !.Summary = CountSeverity(@, pv.Severity)]
         IN  ProcessVulns(r1, pkg, Tail(vulns))

\* a failed query aborts the manifest's audit with an error (the mutant of
\* AfterQuery)
AfterQueryAbortsOnError(r, pkg, outcome) ==
    IF ~outcome.ok
    THEN [result |-> [r EXCEPT !.Error = "query failed"], continue |-> FALSE]
    ELSE [result |-> ProcessVulns(r, pkg, outcome.Vulns), continue |-> TRUE]

\* one iteration of the query loop after QueryPackage returned: on an error
\* `continue`, otherwise process the vulnerabilities
AfterQuery(r, pkg, outcome) ==
    IF ~outcome.ok
    THEN [result |-> r, continue |-> TRUE]
    ELSE [result |-> ProcessVulns(r, pkg, outcome.Vulns), continue |-> TRUE]

\* ---------------------------------------------------- parse outcomes
\* packages a Python parser can return: an exact pin and an any-version entry
PythonPackages ==
    {[Name |-> "flask", Version |-> "2.0.1"], [Name |-> "requests", Version |-> ""]}

\* modules ParseGoMod can return (its regular expression requires a version)
GoModules ==
    {[Name |-> "github.com/gin-gonic/gin", Version |-> "1.6.0"],
     [Name |-> "gopkg.in/yaml.v2", Version |-> "2.2.2"]}

\* dependencies ParsePomXML can return (it skips those without a version),
\* named groupId:artifactId by GetMavenPackageName
MavenDependencies ==
    {[Name |-> "org.apache.logging.log4j:log4j-core", Version |-> "2.14.1"],
     [Name |-> "junit:junit", Version |-> "4.12"]}

\* what a parser returns: an error, or a list of packages
ParseOutcomes(universe) ==
    {[err |-> TRUE, pkgs |-> <<>>]} \cup
    {[err |-> FALSE, pkgs |-> p] : p \in SeqsUpTo(universe, MaxPkgs)}

EmptyResult == [Vulnerabilities |-> <<>>, Summary |-> ZeroSummary,
                PackagesScanned |-> 0, Error |-> NoError]

\* ---------------------------------------------------- Run*Audit
\* the prefix of an audit, up to the query loop: returns the result and
\* whether the loop is entered
AuditFinished(r) ==
    /\ result' = r
    /\ aPc' = "done"
    /\ packages' = <<>>
    /\ pkgIdx' = 1

AuditEntersLoop(pkgs) ==
    /\ result' = [EmptyResult EXCEPT !.PackagesScanned = Len(pkgs)]
    /\ aPc' = "loop"
    /\ packages' = pkgs
    /\ pkgIdx' = 1

\* the result an audit returns before its loop, or the result it enters the
\* loop with
Returns(r) == [loop |-> FALSE, result |-> r]
EntersLoop(pkgs) == [loop |-> TRUE, result |-> [EmptyResult EXCEPT !.PackagesScanned = Len(pkgs)]]

\* RunPythonAudit up to the loop: the switch on manifestType, the parse error
\* and the empty package list
PythonAuditBeforeLoop(mt, parsed) ==
    IF mt \notin {"requirements.txt", "Pipfile", "pyproject.toml"}
    THEN Returns([EmptyResult EXCEPT !.Error = "unsupported Python manifest type"])
    ELSE IF parsed.err
    THEN Returns([EmptyResult EXCEPT !.Error = "failed to parse manifest"])
    ELSE IF Len(parsed.pkgs) = 0
    THEN Returns(EmptyResult)
    ELSE EntersLoop(parsed.pkgs)

\* RunGoAudit up to the loop
GoAuditBeforeLoop(mt, parsed) ==
    IF mt # "go.mod"
    THEN Returns(EmptyResult)
    ELSE IF parsed.err
    THEN Returns([EmptyResult EXCEPT !.Error = "failed to parse go.mod"])
    ELSE IF Len(parsed.pkgs) = 0
    THEN Returns(EmptyResult)
    ELSE EntersLoop(parsed.pkgs)

\* RunMavenAudit up to the loop
MavenAuditBeforeLoop(mt, parsed) ==
    IF mt # "pom.xml"
    THEN Returns(EmptyResult)
    ELSE IF parsed.err
    THEN Returns([EmptyResult EXCEPT !.Error = "failed to parse pom.xml"])
    ELSE IF Len(parsed.pkgs) = 0
    THEN Returns(EmptyResult)
    ELSE EntersLoop(parsed.pkgs)

\* the call of an audit, as a step: the audit runs up to its loop
AuditCalled(eco, mt, parsed, before) ==
    /\ aPc = "idle"
    /\ aEco' = eco
    /\ manifestType' = mt
    /\ queryLog' = <<>>
    /\ IF before.loop THEN AuditEntersLoop(parsed.pkgs) ELSE AuditFinished(before.result)

RunPythonAudit(mt, parsed) == AuditCalled("PyPI", mt, parsed, PythonAuditBeforeLoop(mt, parsed))
RunGoAudit(mt, parsed) == AuditCalled("Go", mt, parsed, GoAuditBeforeLoop(mt, parsed))
RunMavenAudit(mt, parsed) == AuditCalled("Maven", mt, parsed, MavenAuditBeforeLoop(mt, parsed))

\* "for _, pkg := range packages" run to its end, the i-th query having the
\* i-th outcome
RECURSIVE QueryLoop(_, _, _)
QueryLoop(r, pkgs, outcomes) ==
    IF pkgs = <<>> THEN r
    ELSE LET after == AfterQuery(r, Head(pkgs), Head(outcomes))
         IN  IF after.continue
             THEN QueryLoop(after.result, Tail(pkgs), Tail(outcomes))
             ELSE after.result

\* an audit from call to return
AuditReturns(before, pkgs, outcomes) ==
    IF before.loop THEN QueryLoop(before.result, pkgs, outcomes) ELSE before.result

\* mutant: a failed query is sent once more before the loop moves on
QueryStepRetriesOnce(outcome) ==
    /\ aPc = "loop"
    /\ pkgIdx <= Len(packages)
    /\ LET pkg == packages[pkgIdx]
           after == AfterQuery(result, pkg, outcome)
           retry == ~outcome.ok /\ Len(queryLog) < pkgIdx
       IN  /\ queryLog' = Append(queryLog,
                  [Name |-> pkg.Name, Version |-> pkg.Version, Ecosystem |-> aEco,
                   ok |-> outcome.ok, Vulns |-> outcome.Vulns])
           /\ result' = after.result
           /\ IF retry THEN aPc' = "loop" /\ pkgIdx' = pkgIdx
              ELSE IF pkgIdx < Len(packages)
              THEN aPc' = "loop" /\ pkgIdx' = pkgIdx + 1
              ELSE aPc' = "done" /\ pkgIdx' = pkgIdx + 1
    /\ UNCHANGED <<aEco, manifestType, packages>>

\* one iteration of "for _, pkg := range packages": the query is sent with the
\* package's name, version and the audit's ecosystem, and its outcome handled
QueryStep(outcome) ==
    /\ aPc = "loop"
    /\ pkgIdx <= Len(packages)
    /\ LET pkg == packages[pkgIdx]
           after == AfterQuery(result, pkg, outcome)
       IN  /\ queryLog' = Append(queryLog,
                  [Name |-> pkg.Name, Version |-> pkg.Version, Ecosystem |-> aEco,
                   ok |-> outcome.ok, Vulns |-> outcome.Vulns])
           /\ result' = after.result
           /\ IF after.continue /\ pkgIdx < Len(packages)
              THEN aPc' = "loop" /\ pkgIdx' = pkgIdx + 1
              ELSE aPc' = "done" /\ pkgIdx' = pkgIdx + 1
    /\ UNCHANGED <<aEco, manifestType, packages>>

StartPython ==
    /\ \E mt \in ManifestKinds, p \in ParseOutcomes(PythonPackages) :
           RunPythonAudit(mt, p)
    /\ UNCHANGED <<scanVars, reqVars, runVars, pomVars, levVars, typoVars, maintVars, fetchVars, filterVars, manifestVars, fixVars, reportVars>>
StartGo ==
    /\ \E mt \in ManifestKinds, p \in ParseOutcomes(GoModules) :
           RunGoAudit(mt, p)
    /\ UNCHANGED <<scanVars, reqVars, runVars, pomVars, levVars, typoVars, maintVars, fetchVars, filterVars, manifestVars, fixVars, reportVars>>
StartMaven ==
    /\ \E mt \in ManifestKinds, p \in ParseOutcomes(MavenDependencies) :
           RunMavenAudit(mt, p)
    /\ UNCHANGED <<scanVars, reqVars, runVars, pomVars, levVars, typoVars, maintVars, fetchVars, filterVars, manifestVars, fixVars, reportVars>>
Query ==
    /\ \E o \in QueryOutcomes :
           QueryStep(o)
    /\ UNCHANGED <<scanVars, reqVars, runVars, pomVars, levVars, typoVars, maintVars, fetchVars, filterVars, manifestVars, fixVars, reportVars>>

AuditIdle ==
    /\ aPc = "idle"
    /\ aEco = "PyPI"
    /\ manifestType = "requirements.txt"
    /\ packages = <<>>
    /\ pkgIdx = 1
    /\ result = EmptyResult
    /\ queryLog = <<>>


\* ====================================================================
\* The directory scanner
\* ====================================================================

\* the file names Scan looks for
manifestFiles == ManifestKinds

\* directory names Scan does not descend into
NoiseDirs == {"node_modules", "venv", ".venv", "env", "__pycache__", "vendor", "target"}

\* the entry names of the modelled trees, in the lexical order in which
\* filepath.Walk visits the entries of one directory
NameOrder == <<"node_modules", "notes.txt", "package.json", "requirements.txt", "sub", "venv">>

\* base names of the root path: an ordinary one and one that is a noise name
RootNames == {"project", "node_modules"}

\* the places an entry of the modelled trees can be at, relative to the root
PathUniverse ==
    {<<"package.json">>, <<"notes.txt">>,
     <<"node_modules">>, <<"node_modules", "package.json">>,
     <<"node_modules", "sub">>, <<"node_modules", "sub", "package.json">>,
     <<"sub">>, <<"sub", "package.json">>, <<"sub", "requirements.txt">>,
     <<"venv">>, <<"venv", "requirements.txt">>}

RootPath == <<>>
Parent(p) == SubSeq(p, 1, Len(p) - 1)
BaseName(p) == IF p = RootPath THEN rootName ELSE p[Len(p)]
HasEntry(p) == \E e \in entries : e.path = p
EntryAt(p) == IF p = RootPath THEN root ELSE CHOOSE e \in entries : e.path = p
\* what Lstat finds at p: nothing, or the entry's kind and error
OnDisk(p) ==
    IF p = RootPath THEN root
    ELSE IF HasEntry(p) /\ root.kind = "dir"
         THEN [kind |-> EntryAt(p).kind, err |-> EntryAt(p).err]
         ELSE [kind |-> "missing", err |-> "none"]

\* readDirNames: the names in directory p, sorted
ReadDirNames(p) ==
    LET present(n) == HasEntry(Append(p, n))
        names == SelectSeq(NameOrder, present)
    IN  [i \in 1..Len(names) |-> Append(p, names[i])]

\* ---- the environment: the tree is built before New is called
CreateEntry(p, kind, err) ==
    /\ sPc = "build"
    /\ root.kind = "dir"
    /\ ~HasEntry(p)
    /\ Cardinality(entries) < MaxEntries
    /\ Parent(p) = RootPath \/ (HasEntry(Parent(p)) /\ EntryAt(Parent(p)).kind = "dir")
    /\ err = "readdir" => kind = "dir"
    /\ err # "none" =>
          Cardinality({e \in entries : e.err # "none"}) + (IF root.err # "none" THEN 1 ELSE 0) < MaxErrs
    /\ entries' = entries \cup {[path |-> p, kind |-> kind, err |-> err]}
    /\ UNCHANGED <<sPc, rootName, root, newErr, pending, visited, Files, Errors, scanErr>>

\* ---- New: os.Stat of the root path, once
NewError(r) ==
    IF r.kind = "missing" THEN "directory does not exist"
    ELSE IF r.err = "lstat" THEN "cannot access directory"
    ELSE IF r.kind # "dir" THEN "path is not a directory"
    ELSE NoError

New ==
    /\ sPc = "build"
    /\ newErr' = NewError(root)
    /\ sPc' = IF NewError(root) = NoError THEN "ready" ELSE "failed"
    /\ UNCHANGED <<rootName, root, entries, pending, visited, Files, Errors, scanErr>>

\* ---- the environment: the root changes between New and Scan
RootChanges(r) ==
    /\ sPc = "ready"
    /\ root = [kind |-> "dir", err |-> "none"]
    /\ r # root
    /\ root' = r
    /\ UNCHANGED <<sPc, rootName, entries, newErr, pending, visited, Files, Errors, scanErr>>

\* ---- the function Scan hands to filepath.Walk
\* mutant: a pruned directory is entered
WalkFnDescends(p, info, err, files, errors) ==
    IF err # NoError
    THEN [ret |-> "nil", files |-> files, errors |-> Append(errors, p)]
    ELSE IF info.kind = "dir"
    THEN [ret |-> "nil", files |-> files, errors |-> errors]
    ELSE IF BaseName(p) \in manifestFiles
    THEN [ret |-> "nil", files |-> Append(files, [Path |-> p, Type |-> BaseName(p)]),
          errors |-> errors]
    ELSE [ret |-> "nil", files |-> files, errors |-> errors]

\* mutant: an entry's error is returned to filepath.Walk
WalkFnReturnsErr(p, info, err, files, errors) ==
    IF err # NoError
    THEN [ret |-> "err", files |-> files, errors |-> Append(errors, p)]
    ELSE IF info.kind = "dir"
    THEN [ret |-> IF BaseName(p) \in NoiseDirs THEN "SkipDir" ELSE "nil",
          files |-> files, errors |-> errors]
    ELSE IF BaseName(p) \in manifestFiles
    THEN [ret |-> "nil", files |-> Append(files, [Path |-> p, Type |-> BaseName(p)]),
          errors |-> errors]
    ELSE [ret |-> "nil", files |-> files, errors |-> errors]

\* mutant: an entry's error is not collected
WalkFnDropsError(p, info, err, files, errors) ==
    IF err # NoError
    THEN [ret |-> "nil", files |-> files, errors |-> errors]
    ELSE IF info.kind = "dir"
    THEN [ret |-> IF BaseName(p) \in NoiseDirs THEN "SkipDir" ELSE "nil",
          files |-> files, errors |-> errors]
    ELSE IF BaseName(p) \in manifestFiles
    THEN [ret |-> "nil", files |-> Append(files, [Path |-> p, Type |-> BaseName(p)]),
          errors |-> errors]
    ELSE [ret |-> "nil", files |-> files, errors |-> errors]

\* the walk function: collect the error and go on; SkipDir for a directory
\* with a noise name; a file whose name equals an entry of manifestFiles is
\* appended with that entry as its type
WalkFn(p, info, err, files, errors) ==
    IF err # NoError
    THEN [ret |-> "nil", files |-> files, errors |-> Append(errors, p)]
    ELSE IF info.kind = "dir"
    THEN [ret |-> IF BaseName(p) \in NoiseDirs THEN "SkipDir" ELSE "nil",
          files |-> files, errors |-> errors]
    ELSE IF \E m \in manifestFiles : BaseName(p) = m
    THEN [ret |-> "nil",
          files |-> Append(files, [Path |-> p,
                                   Type |-> CHOOSE m \in manifestFiles : BaseName(p) = m]),
          errors |-> errors]
    ELSE [ret |-> "nil", files |-> files, errors |-> errors]

\* ---- Scan: filepath.Walk from the root
ScanStart ==
    /\ sPc = "ready"
    /\ sPc' = "walking"
    /\ pending' = <<RootPath>>
    /\ Files' = <<>>
    /\ Errors' = <<>>
    /\ UNCHANGED <<rootName, root, entries, newErr, visited, scanErr>>

\* Scan returns: the walk's error, wrapped, or the result
ScanReturns(walkErr) ==
    /\ sPc' = "done"
    /\ pending' = <<>>
    /\ scanErr' = IF walkErr # NoError THEN "failed to walk directory" ELSE NoError

\* the paths still to reach once the walk function returned SkipDir for p:
\* for a directory only its own entries are left out (none were queued yet);
\* for any other entry the rest of its directory is left out
AfterSkipDir(p, isDir, rest) ==
    IF isDir \/ p = RootPath THEN rest
    ELSE SelectSeq(rest, LAMBDA q : ~(Len(q) = Len(p) /\ Parent(q) = Parent(p)))

\* one entry of the walk: Lstat, for a directory readDirNames, then the walk
\* function; its return value decides how the walk goes on
WalkStep ==
    /\ sPc = "walking"
    /\ pending # <<>>
    /\ LET p == Head(pending)
           rest == Tail(pending)
           disk == OnDisk(p)
           lstatFails == disk.kind = "missing" \/ disk.err = "lstat"
           isDir == ~lstatFails /\ disk.kind = "dir"
           readFails == isDir /\ disk.err = "readdir"
           err == IF lstatFails THEN "lstat failed"
                  ELSE IF readFails THEN "readdir failed" ELSE NoError
           out == WalkFn(p, disk, err, Files, Errors)
           next == IF out.ret = "SkipDir" THEN AfterSkipDir(p, isDir, rest)
                   ELSE IF isDir /\ ~readFails THEN ReadDirNames(p) \o rest
                   ELSE rest
       IN  /\ visited' = Append(visited, p)
           /\ Files' = out.files
           /\ Errors' = out.errors
           /\ IF out.ret = "err" THEN ScanReturns("walk error")
              ELSE IF next = <<>> THEN ScanReturns(NoError)
              ELSE sPc' = "walking" /\ pending' = next /\ scanErr' = scanErr
    /\ UNCHANGED <<rootName, root, entries, newErr>>

ScanIdle(names, roots) ==
    /\ sPc = "build"
    /\ rootName \in names
    /\ root \in roots
    /\ entries = {}
    /\ newErr = NoError
    /\ pending = <<>>
    /\ visited = <<>>
    /\ Files = <<>>
    /\ Errors = <<>>
    /\ scanErr = NoError

\* what the root path can be when New is called: a directory, a directory
\* that cannot be read, a path that cannot be stat'ed, a file, nothing
RootStates ==
    {[kind |-> "dir", err |-> "none"], [kind |-> "dir", err |-> "readdir"],
     [kind |-> "dir", err |-> "lstat"], [kind |-> "file", err |-> "none"],
     [kind |-> "missing", err |-> "none"]}

\* what the root can turn into after New succeeded
RootLater ==
    {[kind |-> "dir", err |-> "readdir"], [kind |-> "file", err |-> "none"],
     [kind |-> "missing", err |-> "none"]}

Create ==
    /\ \E p \in PathUniverse, kind \in {"dir", "file"}, err \in {"none", "lstat", "readdir"} :
           CreateEntry(p, kind, err)
    /\ UNCHANGED <<auditVars, reqVars, runVars, pomVars, levVars, typoVars, maintVars, fetchVars, filterVars, manifestVars, fixVars, reportVars>>
Construct ==
    /\ New
    /\ UNCHANGED <<auditVars, reqVars, runVars, pomVars, levVars, typoVars, maintVars, fetchVars, filterVars, manifestVars, fixVars, reportVars>>
Replace ==
    /\ \E r \in RootLater :
           RootChanges(r)
    /\ UNCHANGED <<auditVars, reqVars, runVars, pomVars, levVars, typoVars, maintVars, fetchVars, filterVars, manifestVars, fixVars, reportVars>>
Scan ==
    /\ ScanStart
    /\ UNCHANGED <<auditVars, reqVars, runVars, pomVars, levVars, typoVars, maintVars, fetchVars, filterVars, manifestVars, fixVars, reportVars>>
Walk ==
    /\ WalkStep
    /\ UNCHANGED <<auditVars, reqVars, runVars, pomVars, levVars, typoVars, maintVars, fetchVars, filterVars, manifestVars, fixVars, reportVars>>

\* ====================================================================
\* ParseRequirementsTxt
\* ====================================================================
\* Text is a sequence of one-character strings.

Lower == {"a", "b", "c", "d", "e", "f", "g", "h", "i", "j", "k", "l", "m",
          "n", "o", "p", "q", "r", "s", "t", "u", "v", "w", "x", "y", "z"}
Upper == {"A", "B", "C", "D", "E", "F", "G", "H", "I", "J", "K", "L", "M",
          "N", "O", "P", "Q", "R", "S", "T", "U", "V", "W", "X", "Y", "Z"}
Digits == {"0", "1", "2", "3", "4", "5", "6", "7", "8", "9"}
\* unicode.IsSpace, for the characters a line can hold
Space == {" ", "\t"}
\* [a-zA-Z0-9\-_\.]
NameChars == Lower \cup Upper \cup Digits \cup {"-", "_", "."}
\* [=<>~!]
OpChars == {"=", "<", ">", "~", "!"}
\* [0-9\.\*]
VersionStart == Digits \cup {".", "*"}

\* the first index from i on whose character is not in class (Len(s)+1 if none)
RECURSIVE Span(_, _, _)
Span(s, i, class) ==
    IF i > Len(s) \/ s[i] \notin class THEN i ELSE Span(s, i + 1, class)

\* the last index up to i whose character is not a space (0 if none)
RECURSIVE LastNonSpace(_, _)
LastNonSpace(s, i) ==
    IF i = 0 \/ s[i] \notin Space THEN i ELSE LastNonSpace(s, i - 1)

\* strings.TrimSpace
TrimSpace(s) == SubSeq(s, Span(s, 1, Space), LastNonSpace(s, Len(s)))

\* strings.HasPrefix
HasPrefix(s, prefix) ==
    Len(s) >= Len(prefix) /\ SubSeq(s, 1, Len(prefix)) = prefix

\* strings.Contains
Contains(s, sub) ==
    \E i \in 1..(Len(s) - Len(sub) + 1) : SubSeq(s, i, i + Len(sub) - 1) = sub

\* pkgRegex.FindStringSubmatch:
\*   ^([a-zA-Z0-9\-_\.]+)\s*([=<>~!]+)\s*([0-9\.\*]+.*)$
\* the classes of neighbouring groups are disjoint, so each group takes the
\* longest run of its class
PkgRegex(line) ==
    LET nameEnd == Span(line, 1, NameChars)
        opStart == Span(line, nameEnd, Space)
        opEnd == Span(line, opStart, OpChars)
        verStart == Span(line, opEnd, Space)
        matched == /\ nameEnd > 1
                   /\ opEnd > opStart
                   /\ verStart <= Len(line)
                   /\ line[verStart] \in VersionStart
    IN  IF matched
        THEN [matched |-> TRUE,
              name |-> SubSeq(line, 1, nameEnd - 1),
              op |-> SubSeq(line, opStart, opEnd - 1),
              version |-> SubSeq(line, verStart, Len(line))]
        ELSE [matched |-> FALSE, name |-> <<>>, op |-> <<>>, version |-> <<>>]

\* regexp.MatchString(`^[a-zA-Z0-9\-_\.]+$`, line)
BareNameRegex(line) == Len(line) > 0 /\ Span(line, 1, NameChars) = Len(line) + 1

\* mutant: a range operator's line is dropped, not broadened
ParseLineDropsRanges(text, lineNum) ==
    LET line == TrimSpace(text)
        m == PkgRegex(line)
    IN  IF line = <<>> \/ HasPrefix(line, <<"#">>) THEN <<>>
        ELSE IF \/ HasPrefix(line, <<"-", "r", " ">>)
                \/ HasPrefix(line, <<"-", "-", "r", "e", "q", "u", "i", "r", "e", "m", "e", "n", "t">>)
        THEN <<>>
        ELSE IF HasPrefix(line, <<"-", "e", " ">>) \/ Contains(line, <<":", "/", "/">>) THEN <<>>
        ELSE IF m.matched
        THEN IF TrimSpace(m.op) = <<"=", "=">>
             THEN <<[Name |-> TrimSpace(m.name), Version |-> TrimSpace(m.version), Line |-> lineNum]>>
             ELSE <<>>
        ELSE IF BareNameRegex(line)
        THEN <<[Name |-> line, Version |-> <<>>, Line |-> lineNum]>>
        ELSE <<>>

\* the body of the scanner.Scan() loop for one line: the packages appended
ParseLine(text, lineNum) ==
    LET line == TrimSpace(text)
        m == PkgRegex(line)
    IN  IF line = <<>> \/ HasPrefix(line, <<"#">>) THEN <<>>
        ELSE IF \/ HasPrefix(line, <<"-", "r", " ">>)
                \/ HasPrefix(line, <<"-", "-", "r", "e", "q", "u", "i", "r", "e", "m", "e", "n", "t">>)
        THEN <<>>
        ELSE IF HasPrefix(line, <<"-", "e", " ">>) \/ Contains(line, <<":", "/", "/">>) THEN <<>>
        ELSE IF m.matched
        THEN IF TrimSpace(m.op) = <<"=", "=">>
             THEN <<[Name |-> TrimSpace(m.name), Version |-> TrimSpace(m.version), Line |-> lineNum]>>
             ELSE <<[Name |-> TrimSpace(m.name), Version |-> <<>>, Line |-> lineNum]>>
        ELSE IF BareNameRegex(line)
        THEN <<[Name |-> line, Version |-> <<>>, Line |-> lineNum]>>
        ELSE <<>>

\* ---- the lines of the modelled files
ReqNames == {<<"f", "l", "a", "s", "k">>, <<"z", "o", "p", "e", ".", "i", "-", "2">>}
ReqOps == {<<"=", "=">>, <<">", "=">>, <<"<", "=">>, <<"<">>, <<">">>, <<"~", "=">>,
           <<"!", "=">>, <<"=", "=", "=">>}
ReqVersions == {<<"2", ".", "0", ".", "1">>, <<"1", ".", "*">>}
\* a line is written tight (flask==2.0.1) or with spaces before, after and
\* around the operator
Pad(loose) == IF loose THEN <<" ">> ELSE <<>>

\* name operator version
SpecLines ==
    {[kind |-> "spec", name |-> n, op |-> o, version |-> v,
      text |-> Pad(l) \o n \o Pad(l) \o o \o Pad(l) \o v \o Pad(l)] :
        n \in ReqNames, o \in ReqOps, v \in ReqVersions, l \in BOOLEAN}
\* a bare name
BareLines ==
    {[kind |-> "bare", name |-> n, op |-> <<>>, version |-> <<>>,
      text |-> Pad(l) \o n \o Pad(l)] : n \in ReqNames, l \in BOOLEAN}
\* blank, comment, include (-r b.txt, -rb.txt, --requirement b.txt), editable
\* install, URL, and a line that is none of these and no requirement either
OtherLines ==
    {[kind |-> k[1], name |-> <<>>, op |-> <<>>, version |-> <<>>, text |-> k[2]] :
        k \in {<<"blank", <<" ">> >>,
               <<"comment", <<"#", " ", "x", "=", "=", "1">> >>,
               <<"include", <<"-", "r", " ", "b", ".", "t", "x", "t">> >>,
               <<"include", <<"-", "r", "b", ".", "t", "x", "t">> >>,
               <<"include", <<"-", "-", "r", "e", "q", "u", "i", "r", "e", "m", "e", "n", "t",
                              " ", "b", ".", "t", "x", "t">> >>,
               <<"malformed", <<"f", "l", "a", "s", "k", " ", "=", "=">> >>,
               <<"editable", <<"-", "e", " ", ".">> >>,
               <<"url", <<"g", "i", "t", "+", "h", "t", "t", "p", "s", ":", "/", "/", "x">> >>}}
ReqLines == SpecLines \cup BareLines \cup OtherLines

\* os.Open
OpenRequirements(ok) ==
    /\ rPc = "idle"
    /\ rLines' = <<>>
    /\ rPackages' = <<>>
    /\ IF ok THEN rPc' = "reading" /\ rErr' = NoError
       ELSE rPc' = "done" /\ rErr' = "failed to open requirements.txt"

\* one turn of the loop: the scanner yields the next line of the file
ReadLine(l) ==
    /\ rPc = "reading"
    /\ Len(rLines) < MaxLines
    /\ rLines' = Append(rLines, l)
    /\ rPackages' = rPackages \o ParseLine(l.text, Len(rLines) + 1)
    /\ UNCHANGED <<rPc, rErr>>

\* the scanner stops: at the end of the file, or on a read error
EndOfRequirements(readOk) ==
    /\ rPc = "reading"
    /\ rPc' = "done"
    /\ IF readOk THEN rErr' = NoError /\ rPackages' = rPackages
       ELSE rErr' = "error reading requirements.txt" /\ rPackages' = <<>>
    /\ UNCHANGED rLines

ReqIdle ==
    /\ rPc = "idle"
    /\ rLines = <<>>
    /\ rPackages = <<>>
    /\ rErr = NoError

OpenFile ==
    /\ \E ok \in BOOLEAN :
           OpenRequirements(ok)
    /\ UNCHANGED <<auditVars, scanVars, runVars, pomVars, levVars, typoVars, maintVars, fetchVars, filterVars, manifestVars, fixVars, reportVars>>
NextLine ==
    /\ \E l \in ReqLines :
           ReadLine(l)
    /\ UNCHANGED <<auditVars, scanVars, runVars, pomVars, levVars, typoVars, maintVars, fetchVars, filterVars, manifestVars, fixVars, reportVars>>
EndOfFile ==
    /\ \E ok \in BOOLEAN :
           EndOfRequirements(ok)
    /\ UNCHANGED <<auditVars, scanVars, runVars, pomVars, levVars, typoVars, maintVars, fetchVars, filterVars, manifestVars, fixVars, reportVars>>

\* ====================================================================
\* npm audit (Runner.RunAudit, FilterBySeverity, CheckNpmInstalled)
\* ====================================================================

\* the severityLevel map of FilterBySeverity; a key it does not hold reads as
\* the zero value
SeverityLevel(sev) ==
    CASE sev = "info" -> 0
      [] sev = "low" -> 1
      [] sev = "moderate" -> 2
      [] sev = "high" -> 3
      [] sev = "critical" -> 4
      [] OTHER -> 0

\* mutant: the vulnerabilities below the minimum are the ones kept
FilterKeepsBelow(vulnerabilities, minSeverity) ==
    SelectSeq(vulnerabilities,
              LAMBDA v : SeverityLevel(v.Severity) < SeverityLevel(minSeverity))

FilterBySeverity(vulnerabilities, minSeverity) ==
    SelectSeq(vulnerabilities,
              LAMBDA v : SeverityLevel(v.Severity) >= SeverityLevel(minSeverity))

\* ---- what `npm audit --json` can write to stdout: text that is not JSON, or
\* a JSON document, of which the model keeps the two members RunAudit reads:
\* "vulnerabilities" (pairs name, severity) and "metadata"."vulnerabilities"
\* (pairs key, count; a key may be absent)
NotJSON == [valid |-> FALSE, vulnerabilities |-> {}, metadata |-> {}]

\* a report of npm 7 or later without findings
CleanReport ==
    [valid |-> TRUE, vulnerabilities |-> {},
     metadata |-> {<<"info", 0>>, <<"low", 0>>, <<"moderate", 0>>, <<"high", 0>>,
                   <<"critical", 0>>, <<"total", 0>>}]

\* a report of npm 7 or later with two findings
FindingsReport ==
    [valid |-> TRUE,
     vulnerabilities |-> {<<"lodash", "high">>, <<"minimist", "low">>},
     metadata |-> {<<"info", 0>>, <<"low", 1>>, <<"moderate", 0>>, <<"high", 1>>,
                   <<"critical", 0>>, <<"total", 2>>}]

\* a report of npm 6: findings are under "advisories", and
\* metadata.vulnerabilities has no "total"
Npm6Report ==
    [valid |-> TRUE, vulnerabilities |-> {},
     metadata |-> {<<"info", 0>>, <<"low", 1>>, <<"moderate", 0>>, <<"high", 0>>,
                   <<"critical", 0>>}]

\* {"error": {...}}: what npm prints when the audit itself fails (no lockfile)
ErrorReport == [valid |-> TRUE, vulnerabilities |-> {}, metadata |-> {}]

\* a report with one finding whose entry has no "severity" member (the pair
\* holds the empty string, what the member unmarshals to)
UnratedReport ==
    [valid |-> TRUE, vulnerabilities |-> {<<"left-pad", "">>},
     metadata |-> {<<"info", 0>>, <<"low", 0>>, <<"moderate", 0>>, <<"high", 0>>,
                   <<"critical", 0>>, <<"total", 1>>}]

NpmStdouts == {NotJSON, CleanReport, FindingsReport, Npm6Report, ErrorReport, UnratedReport}

\* ---- how cmd.Output() can end: err is nil, an *exec.ExitError or another
\* error; deadline tells whether ctx.Err() is context.DeadlineExceeded
NpmNotStarted == [err |-> "other", deadline |-> FALSE, stdout |-> NotJSON]
NpmKilledAtDeadline == [err |-> "ExitError", deadline |-> TRUE, stdout |-> NotJSON]
NpmCompleted ==
    {[err |-> e, deadline |-> FALSE, stdout |-> o] :
        e \in {"nil", "ExitError"}, o \in NpmStdouts}

\* the runs possible on a machine with or without npm
NpmRuns(installed) ==
    IF installed THEN {NpmNotStarted, NpmKilledAtDeadline} \cup NpmCompleted
    ELSE {NpmNotStarted}

\* json.Unmarshal into VulnerabilitySummary: an absent key leaves the zero
MetadataCount(counts, key) ==
    IF \E kv \in counts : kv[1] = key
    THEN (CHOOSE kv \in counts : kv[1] = key)[2]
    ELSE 0

Unmarshal(stdout) ==
    [Vulnerabilities |-> stdout.vulnerabilities,
     Metadata |->
        [Info |-> MetadataCount(stdout.metadata, "info"),
         Low |-> MetadataCount(stdout.metadata, "low"),
         Moderate |-> MetadataCount(stdout.metadata, "moderate"),
         High |-> MetadataCount(stdout.metadata, "high"),
         Critical |-> MetadataCount(stdout.metadata, "critical"),
         Total |-> MetadataCount(stdout.metadata, "total")]]

\* the orders in which `range` can yield the entries of a map
MapOrders(m) ==
    {o \in [1..Cardinality(m) -> m] : \A i, j \in 1..Cardinality(m) : o[i] = o[j] => i = j}

EmptyAuditResult(path) ==
    [PackageJSONPath |-> path, Vulnerabilities |-> <<>>, Summary |-> ZeroSummary,
     Error |-> NoError]

\* mutant: a non-zero exit code is reported as a failure to run
RunAuditFailsOnExitCode(path, run, order) ==
    IF run.err # "nil" /\ run.deadline
    THEN [EmptyAuditResult(path) EXCEPT !.Error = "npm audit timed out"]
    ELSE IF run.err # "nil"
    THEN [EmptyAuditResult(path) EXCEPT !.Error = "failed to run npm audit"]
    ELSE IF ~run.stdout.valid
    THEN [EmptyAuditResult(path) EXCEPT !.Error = "failed to parse npm audit output"]
    ELSE [EmptyAuditResult(path) EXCEPT
            !.Summary = Unmarshal(run.stdout).Metadata,
            !.Vulnerabilities = [i \in 1..Len(order) |->
                                    [Name |-> order[i][1], Severity |-> order[i][2]]]]

\* Runner.RunAudit: run is how the command ended, order the order in which the
\* vulnerabilities map is ranged over
RunAudit(path, run, order) ==
    IF run.err # "nil" /\ run.deadline
    THEN [EmptyAuditResult(path) EXCEPT !.Error = "npm audit timed out"]
    ELSE IF run.err # "nil" /\ run.err # "ExitError"
    THEN [EmptyAuditResult(path) EXCEPT !.Error = "failed to run npm audit"]
    ELSE IF ~run.stdout.valid
    THEN [EmptyAuditResult(path) EXCEPT !.Error = "failed to parse npm audit output"]
    ELSE [EmptyAuditResult(path) EXCEPT
            !.Summary = Unmarshal(run.stdout).Metadata,
            !.Vulnerabilities = [i \in 1..Len(order) |->
                                    [Name |-> order[i][1], Severity |-> order[i][2]]]]

\* CheckNpmInstalled: `npm --version` runs and prints something
CheckNpmInstalled(installed) ==
    IF installed THEN NoError ELSE "npm is not installed or not available in PATH"

\* ====================================================================
\* The run of the command (rootCmd.Run) and JSONFormatter.Format
\* ====================================================================

\* scanner.IsNodeJSManifest, IsPythonManifest, IsGoManifest, IsMavenManifest
IsNodeJSManifest(t) ==
    t \in {"package.json", "package-lock.json", "yarn.lock", "pnpm-lock.yaml"}
IsPythonManifest(t) ==
    t \in {"requirements.txt", "Pipfile", "Pipfile.lock", "poetry.lock", "pyproject.toml"}
IsGoManifest(t) == t \in {"go.mod", "go.sum"}
IsMavenManifest(t) == t = "pom.xml"

\* ScanResult.GetManifestsByType
GetManifestsByType(files, t) == SelectSeq(files, LAMBDA f : f.Type = t)

DetectedFile(dir, t) == [Path |-> <<dir, t>>, Type |-> t]

\* the ScanResult.Files of the modelled runs
ScanResults ==
    {<<>>,
     <<DetectedFile("app", "package.json")>>,
     <<DetectedFile("app", "package-lock.json")>>,
     <<DetectedFile("app", "poetry.lock")>>,
     <<DetectedFile("app", "package.json"), DetectedFile("app", "requirements.txt")>>,
     <<DetectedFile("api", "go.mod"), DetectedFile("web", "package.json"),
       DetectedFile("web", "pom.xml")>>,
     <<DetectedFile("a", "package.json"), DetectedFile("b", "package.json")>>,
     <<DetectedFile("a", "Pipfile"), DetectedFile("a", "Pipfile.lock"),
       DetectedFile("a", "pyproject.toml")>>}

\* values of the --severity flag
SeverityFlags == {"critical", "high", "medium", "low"}

\* how the audit of one manifest through OSV can go: what the parser returns
\* and the outcome of each query
OneVuln == [ok |-> TRUE, Vulns |-> <<[ID |-> "V1", Aliases |-> <<>>]>>]
TwoVulns ==
    [ok |-> TRUE,
     Vulns |-> <<[ID |-> "V1", Aliases |-> <<>>], [ID |-> "V2", Aliases |-> <<"", "CVE-1">>]>>]
QueryFails == [ok |-> FALSE, Vulns |-> <<>>]

AuditCourses(universe) ==
    {[parsed |-> [err |-> TRUE, pkgs |-> <<>>], outcomes |-> <<>>],
     [parsed |-> [err |-> FALSE, pkgs |-> <<>>], outcomes |-> <<>>]} \cup
    {[parsed |-> [err |-> FALSE, pkgs |-> <<pkg>>], outcomes |-> <<o>>] :
        pkg \in universe, o \in {QueryFails, OneVuln, TwoVulns}} \cup
    {[parsed |-> [err |-> FALSE, pkgs |-> <<pair[1], pair[2]>>],
      outcomes |-> <<OneVuln, QueryFails>>] :
        pair \in {pq \in universe \X universe : pq[1] # pq[2]}}

\* the result records main appends, with the manifest they belong to
ManifestResult(file, r) ==
    [ManifestPath |-> file.Path, ManifestType |-> file.Type,
     Vulnerabilities |-> r.Vulnerabilities, Summary |-> r.Summary,
     PackagesScanned |-> r.PackagesScanned, Error |-> r.Error]

\* the manifests the four loops of main go through, in the order of the loops
Tagged(eco, files) == [i \in 1..Len(files) |-> [eco |-> eco, file |-> files[i]]]

AuditQueue(files, python, go, maven) ==
    Tagged("npm", GetManifestsByType(files, "package.json"))
    \o (IF python
        THEN Tagged("python", GetManifestsByType(files, "requirements.txt")
                              \o GetManifestsByType(files, "Pipfile")
                              \o GetManifestsByType(files, "pyproject.toml"))
        ELSE <<>>)
    \o (IF go THEN Tagged("go", GetManifestsByType(files, "go.mod")) ELSE <<>>)
    \o (IF maven THEN Tagged("maven", GetManifestsByType(files, "pom.xml")) ELSE <<>>)

\* main from the scan result to the first audit loop: the ecosystems found,
\* the npm check, the two early returns
DetectEcosystems ==
    /\ runPc = "start"
    /\ LET types == {scanned[i].Type : i \in 1..Len(scanned)}
           nodeFound == \E t \in types : IsNodeJSManifest(t)
           python == \E t \in types : IsPythonManifest(t)
           go == \E t \in types : IsGoManifest(t)
           maven == \E t \in types : IsMavenManifest(t)
           node == nodeFound /\ CheckNpmInstalled(npmInstalled) = NoError
       IN  IF Len(scanned) = 0
           THEN /\ runPc' = "done"
                /\ message' = "No package manifests found"
                /\ UNCHANGED <<hasNodeJS, hasPython, hasGo, hasMaven, todo>>
           ELSE IF ~node /\ ~python /\ ~go /\ ~maven
           THEN /\ runPc' = "done"
                /\ message' = "No audit tools available"
                /\ hasNodeJS' = node /\ hasPython' = python
                /\ hasGo' = go /\ hasMaven' = maven
                /\ UNCHANGED todo
           ELSE /\ runPc' = "audit"
                /\ message' = ""
                /\ hasNodeJS' = (node /\ Len(GetManifestsByType(scanned, "package.json")) > 0)
                /\ hasPython' = python /\ hasGo' = go /\ hasMaven' = maven
                /\ todo' = AuditQueue(scanned, python, go, maven)
    /\ UNCHANGED <<npmInstalled, severity, scanned, auditResults, pythonAuditResults,
                   goAuditResults, mavenAuditResults, totalVulnerabilities, hasErrors,
                   npmRuns, jsonOut>>

\* one turn of "for _, pkgFile := range packageJSONFiles"
NpmAuditStep(run, order) ==
    /\ runPc = "audit"
    /\ todo # <<>>
    /\ Head(todo).eco = "npm"
    /\ LET pkgFile == Head(todo).file
           auditResult == RunAudit(pkgFile.Path, run, order)
       IN  /\ npmRuns' = Append(npmRuns, [run |-> run, returned |-> auditResult])
           /\ hasErrors' = (hasErrors \/ auditResult.Error # NoError)
           /\ auditResults' = Append(auditResults,
                  [auditResult EXCEPT
                      !.Vulnerabilities = FilterBySeverity(@, severity)])
           /\ totalVulnerabilities' = totalVulnerabilities + auditResult.Summary.Total
    /\ todo' = Tail(todo)
    /\ UNCHANGED <<runPc, npmInstalled, severity, scanned, hasNodeJS, hasPython, hasGo,
                   hasMaven, pythonAuditResults, goAuditResults, mavenAuditResults,
                   message, jsonOut>>

\* mutant: a result with an error ends the audit loops
CollectedStopsOnError(r) ==
    /\ hasErrors' = (hasErrors \/ r.Error # NoError)
    /\ totalVulnerabilities' = totalVulnerabilities + r.Summary.Total
    /\ todo' = IF r.Error # NoError THEN <<>> ELSE Tail(todo)
    /\ UNCHANGED <<runPc, npmInstalled, severity, scanned, hasNodeJS, hasPython, hasGo,
                   hasMaven, auditResults, npmRuns, message, jsonOut>>

\* what one turn of a loop over OSV-audited manifests does with the result
Collected(r) ==
    /\ hasErrors' = (hasErrors \/ r.Error # NoError)
    /\ totalVulnerabilities' = totalVulnerabilities + r.Summary.Total
    /\ todo' = Tail(todo)
    /\ UNCHANGED <<runPc, npmInstalled, severity, scanned, hasNodeJS, hasPython, hasGo,
                   hasMaven, auditResults, npmRuns, message, jsonOut>>

\* one turn of "for _, manifestFile := range pythonManifests"
PythonAuditStep(course) ==
    /\ runPc = "audit"
    /\ todo # <<>>
    /\ Head(todo).eco = "python"
    /\ LET manifestFile == Head(todo).file
           pythonResult ==
               AuditReturns(PythonAuditBeforeLoop(manifestFile.Type, course.parsed),
                            course.parsed.pkgs, course.outcomes)
       IN  /\ pythonAuditResults' =
                  Append(pythonAuditResults, ManifestResult(manifestFile, pythonResult))
           /\ Collected(pythonResult)
    /\ UNCHANGED <<goAuditResults, mavenAuditResults>>

\* one turn of "for _, goModFile := range goModFiles"
GoAuditStep(course) ==
    /\ runPc = "audit"
    /\ todo # <<>>
    /\ Head(todo).eco = "go"
    /\ LET goModFile == Head(todo).file
           goResult ==
               AuditReturns(GoAuditBeforeLoop(goModFile.Type, course.parsed),
                            course.parsed.pkgs, course.outcomes)
       IN  /\ goAuditResults' = Append(goAuditResults, ManifestResult(goModFile, goResult))
           /\ Collected(goResult)
    /\ UNCHANGED <<pythonAuditResults, mavenAuditResults>>

\* one turn of "for _, pomFile := range pomFiles"
MavenAuditStep(course) ==
    /\ runPc = "audit"
    /\ todo # <<>>
    /\ Head(todo).eco = "maven"
    /\ LET pomFile == Head(todo).file
           mavenResult ==
               AuditReturns(MavenAuditBeforeLoop(pomFile.Type, course.parsed),
                            course.parsed.pkgs, course.outcomes)
       IN  /\ mavenAuditResults' =
                  Append(mavenAuditResults, ManifestResult(pomFile, mavenResult))
           /\ Collected(mavenResult)
    /\ UNCHANGED <<pythonAuditResults, goAuditResults>>

\* ---- JSONFormatter.Format
\* mutant: the totals of the results are not added up
AddSummaryWithoutTotal(a, b) ==
    [Info |-> a.Info + b.Info, Low |-> a.Low + b.Low, Moderate |-> a.Moderate + b.Moderate,
     High |-> a.High + b.High, Critical |-> a.Critical + b.Critical,
     Total |-> a.Total]

AddSummary(a, b) ==
    [Info |-> a.Info + b.Info, Low |-> a.Low + b.Low, Moderate |-> a.Moderate + b.Moderate,
     High |-> a.High + b.High, Critical |-> a.Critical + b.Critical,
     Total |-> a.Total + b.Total]

\* "totalSummary.X += r.Summary.X" over one list of results
RECURSIVE Aggregate(_, _)
Aggregate(totalSummary, results) ==
    IF results = <<>> THEN totalSummary
    ELSE Aggregate(AddSummary(totalSummary, Head(results).Summary), Tail(results))

Format(output) ==
    [ManifestsFound |-> Len(output.ScanResults),
     Audits |-> output.AuditResults,
     PythonAudits |-> output.PythonAuditResults,
     GoAudits |-> output.GoAuditResults,
     MavenAudits |-> output.MavenAuditResults,
     TotalVulns |-> output.TotalVulns,
     Summary |->
        Aggregate(Aggregate(Aggregate(Aggregate(ZeroSummary, output.AuditResults),
                                      output.PythonAuditResults),
                            output.GoAuditResults),
                  output.MavenAuditResults)]

\* the end of main: the ScanOutput is built and formatted
FormatOutput ==
    /\ runPc = "audit"
    /\ todo = <<>>
    /\ runPc' = "done"
    /\ jsonOut' = Format([ScanResults |-> scanned,
                          AuditResults |-> auditResults,
                          PythonAuditResults |-> pythonAuditResults,
                          GoAuditResults |-> goAuditResults,
                          MavenAuditResults |-> mavenAuditResults,
                          TotalVulns |-> totalVulnerabilities,
                          HasErrors |-> hasErrors])
    /\ UNCHANGED <<npmInstalled, severity, scanned, hasNodeJS, hasPython, hasGo, hasMaven,
                   todo, auditResults, pythonAuditResults, goAuditResults,
                   mavenAuditResults, totalVulnerabilities, hasErrors, npmRuns, message>>

\* the state in which main begins
RunStarts(installs, flags, scans) ==
    /\ runPc = "start"
    /\ npmInstalled \in installs
    /\ severity \in flags
    /\ scanned \in scans
    /\ hasNodeJS = FALSE /\ hasPython = FALSE /\ hasGo = FALSE /\ hasMaven = FALSE
    /\ todo = <<>>
    /\ auditResults = <<>> /\ pythonAuditResults = <<>>
    /\ goAuditResults = <<>> /\ mavenAuditResults = <<>>
    /\ totalVulnerabilities = 0
    /\ hasErrors = FALSE
    /\ npmRuns = <<>>
    /\ message = ""
    /\ jsonOut = "none"

Detect ==
    /\ DetectEcosystems
    /\ UNCHANGED <<auditVars, scanVars, reqVars, pomVars, levVars, typoVars, maintVars, fetchVars, filterVars, manifestVars, fixVars, reportVars>>
AuditNpm ==
    /\ \E run \in NpmRuns(npmInstalled) :
           \E order \in MapOrders(run.stdout.vulnerabilities) : NpmAuditStep(run, order)
    /\ UNCHANGED <<auditVars, scanVars, reqVars, pomVars, levVars, typoVars, maintVars, fetchVars, filterVars, manifestVars, fixVars, reportVars>>
AuditPython ==
    /\ \E course \in AuditCourses(PythonPackages) :
           PythonAuditStep(course)
    /\ UNCHANGED <<auditVars, scanVars, reqVars, pomVars, levVars, typoVars, maintVars, fetchVars, filterVars, manifestVars, fixVars, reportVars>>
AuditGo ==
    /\ \E course \in AuditCourses(GoModules) :
           GoAuditStep(course)
    /\ UNCHANGED <<auditVars, scanVars, reqVars, pomVars, levVars, typoVars, maintVars, fetchVars, filterVars, manifestVars, fixVars, reportVars>>
AuditMaven ==
    /\ \E course \in AuditCourses(MavenDependencies) :
           MavenAuditStep(course)
    /\ UNCHANGED <<auditVars, scanVars, reqVars, pomVars, levVars, typoVars, maintVars, fetchVars, filterVars, manifestVars, fixVars, reportVars>>
Report ==
    /\ FormatOutput
    /\ UNCHANGED <<auditVars, scanVars, reqVars, pomVars, levVars, typoVars, maintVars, fetchVars, filterVars, manifestVars, fixVars, reportVars>>

\* ====================================================================
\* ParsePomXML
\* ====================================================================

\* the <dependency> elements of the modelled documents: groupId, artifactId
\* and scope are text; version is <<>> when the element has no <version>
\* child and <<text>> when it has one (the text may be empty)
PomElements ==
    {[groupId |-> c[1], artifactId |-> c[2], scope |-> c[3], version |-> v] :
        c \in {<<"org.apache.logging.log4j", "log4j-core", "">>, <<"junit", "junit", "test">>},
        v \in {<<>>, <<"">>, <<"2.14.1">>}}

PomDocuments == SeqsUpTo(PomElements, MaxDeps)

\* xml.Decoder.Decode into PomDependency: a child that is absent leaves the
\* field at its zero value
DecodeDependency(e) ==
    [GroupID |-> e.groupId, ArtifactID |-> e.artifactId,
     Version |-> IF e.version = <<>> THEN "" ELSE e.version[1],
     Scope |-> e.scope]

\* mutant: dependencies without a version are returned too
KeepAllDependencies(doc) == [i \in 1..Len(doc) |-> DecodeDependency(doc[i])]

\* the loop of ParsePomXML over project.Dependencies.Dependency
KeepVersioned(doc) ==
    SelectSeq([i \in 1..Len(doc) |-> DecodeDependency(doc[i])], LAMBDA dep : dep.Version # "")

\* MavenDependency.GetMavenPackageName: groupId:artifactId
GetMavenPackageName(d) == <<d.GroupID, ":", d.ArtifactID>>

\* ParsePomXML: the file opens and decodes, or it does not
ParsePomXML(ok) ==
    /\ pomPc = "idle"
    /\ pomPc' = "parsed"
    /\ IF ok THEN pomDeps' = KeepVersioned(pomDoc) /\ pomErr' = NoError
       ELSE pomDeps' = <<>> /\ pomErr' = "failed to parse pom.xml"
    /\ UNCHANGED pomDoc

\* RunMavenAudit on what ParsePomXML returned, up to its loop: each
\* dependency is queried by its Maven name and its version
AuditParsedPom ==
    /\ pomPc = "parsed"
    /\ pomPc' = "audited"
    /\ RunMavenAudit("pom.xml",
           [err |-> pomErr # NoError,
            pkgs |-> [i \in 1..Len(pomDeps) |->
                        [Name |-> GetMavenPackageName(pomDeps[i]),
                         Version |-> pomDeps[i].Version]]])
    /\ UNCHANGED <<pomDoc, pomDeps, pomErr>>

PomIdle(docs) ==
    /\ pomPc = "idle"
    /\ pomDoc \in docs
    /\ pomDeps = <<>>
    /\ pomErr = NoError

ParsePom ==
    /\ \E ok \in BOOLEAN :
           ParsePomXML(ok)
    /\ UNCHANGED <<auditVars, scanVars, reqVars, runVars, levVars, typoVars, maintVars, fetchVars, filterVars, manifestVars, fixVars, reportVars>>
AuditPom ==
    /\ AuditParsedPom
    /\ UNCHANGED <<scanVars, reqVars, runVars, levVars, typoVars, maintVars, fetchVars, filterVars, manifestVars, fixVars, reportVars>>

\* ====================================================================
\* LevenshteinDistance
\* ====================================================================

UpperCase == <<"A", "B", "C", "D", "E", "F", "G", "H", "I", "J", "K", "L", "M",
               "N", "O", "P", "Q", "R", "S", "T", "U", "V", "W", "X", "Y", "Z">>
LowerCase == <<"a", "b", "c", "d", "e", "f", "g", "h", "i", "j", "k", "l", "m",
               "n", "o", "p", "q", "r", "s", "t", "u", "v", "w", "x", "y", "z">>

\* strings.ToLower, for text of ASCII characters
ToLowerChar(c) ==
    IF c \in Upper THEN LowerCase[CHOOSE i \in 1..Len(UpperCase) : UpperCase[i] = c] ELSE c
ToLower(s) == [i \in 1..Len(s) |-> ToLowerChar(s[i])]

\* min(a, b, c)
Min3(a, b, c) ==
    IF a < b THEN (IF a < c THEN a ELSE c)
    ELSE IF b < c THEN b ELSE c

\* the smallest number of a non-empty set
MinOf(numbers) == CHOOSE n \in numbers : \A other \in numbers : n <= other

\* the inner loop: row i of the matrix from row i-1 (prev); row[j + 1] is
\* matrix[i][j] and ch is s1Lower[i-1].  The loop sets matrix[i][j] to the
\* least of matrix[i-1][j] + 1, matrix[i][j-1] + 1 and matrix[i-1][j-1] + cost.
\* The middle term is written without the row itself: with above[k] the least
\* of the first and the third term for column k (and matrix[i][0] = i),
\* matrix[i][j-1] + 1 is the least above[k] + (j - k) over the columns k < j
MatrixRow(prev, i, ch, lower2) ==
    LET columns == 1..(Len(lower2) + 1)
        cost(k) == IF ch # lower2[k - 1] THEN 1 ELSE 0
        above == SubSeq([k \in columns |->
                            IF k = 1 THEN i
                            ELSE Min3(prev[k] + 1, prev[k] + 1, prev[k - 1] + cost(k))],
                        1, Len(lower2) + 1)
    IN  SubSeq([j \in columns |->
                   IF j = 1 THEN i
                   ELSE Min3(prev[j] + 1,
                             MinOf({above[k] + (j - k) : k \in 1..(j - 1)}),
                             prev[j - 1] + cost(j))],
               1, Len(lower2) + 1)

\* the outer loop: the last row of the matrix
RECURSIVE MatrixRows(_, _, _, _)
MatrixRows(prev, i, lower1, lower2) ==
    IF i > Len(lower1) THEN prev
    ELSE MatrixRows(MatrixRow(prev, i, lower1[i], lower2), i + 1, lower1, lower2)

\* mutant: the arguments are compared as they are, without strings.ToLower
LevenshteinCaseSensitive(a, b) ==
    IF a = b THEN 0
    ELSE IF Len(a) = 0 THEN Len(b)
    ELSE IF Len(b) = 0 THEN Len(a)
    ELSE MatrixRows([j \in 1..(Len(b) + 1) |-> j - 1], 1, a, b)[Len(b) + 1]

LevenshteinDistance(a, b) ==
    LET s1Lower == ToLower(a)
        s2Lower == ToLower(b)
    IN  IF s1Lower = s2Lower THEN 0
        ELSE IF Len(s1Lower) = 0 THEN Len(s2Lower)
        ELSE IF Len(s2Lower) = 0 THEN Len(s1Lower)
        ELSE MatrixRows([j \in 1..(Len(s2Lower) + 1) |-> j - 1], 1, s1Lower, s2Lower)
                 [Len(s2Lower) + 1]

\* the characters of the modelled arguments: two letters, one also in upper case
LevAlphabet == {"a", "b", "A"}
LevStrings == SeqsUpTo(LevAlphabet, MaxLen)

LevCalled(strings) ==
    /\ levPc = "called"
    /\ s1 \in strings
    /\ s2 \in strings
    /\ levDistance = 0

LevReturns ==
    /\ levPc = "called"
    /\ levPc' = "returned"
    /\ levDistance' = LevenshteinDistance(s1, s2)
    /\ UNCHANGED <<s1, s2>>

Distance ==
    /\ LevReturns
    /\ UNCHANGED <<auditVars, scanVars, reqVars, runVars, pomVars, typoVars, maintVars, fetchVars, filterVars, manifestVars, fixVars, reportVars>>

\* ====================================================================
\* CheckTyposquatting
\* ====================================================================

\* the curated list of popular npm packages
popularPackages ==
    <<
     <<"r", "e", "a", "c", "t">>,
     <<"r", "e", "a", "c", "t", "-", "d", "o", "m">>,
     <<"l", "o", "d", "a", "s", "h">>,
     <<"e", "x", "p", "r", "e", "s", "s">>,
     <<"a", "x", "i", "o", "s">>,
     <<"w", "e", "b", "p", "a", "c", "k">>,
     <<"t", "y", "p", "e", "s", "c", "r", "i", "p", "t">>,
     <<"e", "s", "l", "i", "n", "t">>,
     <<"p", "r", "e", "t", "t", "i", "e", "r">>,
     <<"b", "a", "b", "e", "l", "-", "c", "o", "r", "e">>,
     <<"j", "e", "s", "t">>,
     <<"m", "o", "c", "h", "a">>,
     <<"c", "h", "a", "i">>,
     <<"r", "e", "q", "u", "e", "s", "t">>,
     <<"m", "o", "m", "e", "n", "t">>,
     <<"c", "o", "m", "m", "a", "n", "d", "e", "r">>,
     <<"a", "s", "y", "n", "c">>,
     <<"u", "n", "d", "e", "r", "s", "c", "o", "r", "e">>,
     <<"c", "h", "a", "l", "k">>,
     <<"d", "e", "b", "u", "g">>,
     <<"n", "p", "m">>,
     <<"y", "a", "r", "n">>,
     <<"p", "n", "p", "m">>,
     <<"n", "e", "x", "t">>,
     <<"v", "u", "e">>,
     <<"a", "n", "g", "u", "l", "a", "r">>,
     <<"j", "q", "u", "e", "r", "y">>,
     <<"b", "o", "o", "t", "s", "t", "r", "a", "p">>,
     <<"t", "a", "i", "l", "w", "i", "n", "d", "c", "s", "s">>,
     <<"s", "a", "s", "s">>,
     <<"l", "e", "s", "s">>,
     <<"p", "o", "s", "t", "c", "s", "s">>,
     <<"w", "e", "b", "p", "a", "c", "k", "-", "c", "l", "i">>,
     <<"w", "e", "b", "p", "a", "c", "k", "-", "d", "e", "v", "-", "s", "e", "r", "v", "e", "r">>,
     <<"b", "a", "b", "e", "l", "-", "l", "o", "a", "d", "e", "r">>,
     <<"t", "s", "-", "l", "o", "a", "d", "e", "r">>,
     <<"d", "o", "t", "e", "n", "v">>,
     <<"c", "o", "r", "s">>,
     <<"b", "o", "d", "y", "-", "p", "a", "r", "s", "e", "r">>,
     <<"m", "o", "n", "g", "o", "o", "s", "e">>,
     <<"s", "e", "q", "u", "e", "l", "i", "z", "e">>,
     <<"r", "e", "d", "i", "s">>,
     <<"p", "g">>,
     <<"m", "y", "s", "q", "l">>,
     <<"m", "o", "n", "g", "o", "d", "b">>,
     <<"s", "q", "l", "i", "t", "e", "3">>,
     <<"p", "a", "s", "s", "p", "o", "r", "t">>,
     <<"b", "c", "r", "y", "p", "t">>,
     <<"j", "s", "o", "n", "w", "e", "b", "t", "o", "k", "e", "n">>,
     <<"u", "u", "i", "d">>,
     <<"v", "a", "l", "i", "d", "a", "t", "o", "r">>,
     <<"n", "o", "d", "e", "m", "o", "n">>,
     <<"p", "m", "2">>,
     <<"f", "o", "r", "e", "v", "e", "r">>,
     <<"c", "r", "o", "s", "s", "-", "e", "n", "v">>,
     <<"s", "o", "c", "k", "e", "t", ".", "i", "o">>,
     <<"w", "s">>,
     <<"g", "r", "a", "p", "h", "q", "l">>,
     <<"a", "p", "o", "l", "l", "o", "-", "s", "e", "r", "v", "e", "r">>,
     <<"r", "e", "d", "u", "x">>,
     <<"m", "o", "b", "x">>,
     <<"z", "u", "s", "t", "a", "n", "d">>,
     <<"r", "e", "c", "o", "i", "l">>,
     <<"r", "e", "a", "c", "t", "-", "r", "o", "u", "t", "e", "r">>,
     <<"r", "e", "a", "c", "t", "-", "r", "o", "u", "t", "e", "r", "-", "d", "o", "m">>,
     <<"v", "u", "e", "-", "r", "o", "u", "t", "e", "r">>,
     <<"@", "t", "y", "p", "e", "s", "/", "n", "o", "d", "e">>,
     <<"@", "t", "y", "p", "e", "s", "/", "r", "e", "a", "c", "t">>,
     <<"@", "t", "y", "p", "e", "s", "/", "e", "x", "p", "r", "e", "s", "s">>,
     <<"t", "s", "l", "i", "b">>,
     <<"c", "o", "r", "e", "-", "j", "s">>,
     <<"r", "e", "g", "e", "n", "e", "r", "a", "t", "o", "r", "-", "r", "u", "n", "t", "i", "m", "e">>,
     <<"r", "i", "m", "r", "a", "f">>,
     <<"m", "k", "d", "i", "r", "p">>,
     <<"g", "l", "o", "b">>,
     <<"m", "i", "n", "i", "m", "a", "t", "c", "h">>,
     <<"s", "e", "m", "v", "e", "r">>,
     <<"y", "a", "r", "g", "s">>,
     <<"i", "n", "q", "u", "i", "r", "e", "r">>,
     <<"o", "r", "a">>,
     <<"f", "s", "-", "e", "x", "t", "r", "a">>,
     <<"p", "a", "t", "h">>,
     <<"u", "t", "i", "l">>,
     <<"s", "t", "r", "e", "a", "m">>,
     <<"b", "l", "u", "e", "b", "i", "r", "d">>,
     <<"q">>,
     <<"c", "o">>,
     <<"r", "x", "j", "s">>,
     <<"d", "a", "t", "e", "-", "f", "n", "s">>,
     <<"d", "a", "y", "j", "s">>,
     <<"l", "u", "x", "o", "n">>,
     <<"c", "l", "a", "s", "s", "n", "a", "m", "e", "s">>,
     <<"c", "l", "s", "x">>,
     <<"p", "r", "o", "p", "-", "t", "y", "p", "e", "s">>,
     <<"f", "a", "s", "t", "-", "g", "l", "o", "b">>,
     <<"c", "h", "o", "k", "i", "d", "a", "r">>,
     <<"n", "o", "d", "e", "m", "a", "i", "l", "e", "r">>,
     <<"c", "h", "e", "e", "r", "i", "o">>,
     <<"j", "s", "d", "o", "m">>,
     <<"p", "u", "p", "p", "e", "t", "e", "e", "r">>,
     <<"p", "l", "a", "y", "w", "r", "i", "g", "h", "t">>,
     <<"s", "h", "a", "r", "p">>,
     <<"j", "i", "m", "p">>,
     <<"c", "a", "n", "v", "a", "s">>,
     <<"c", "o", "m", "p", "r", "e", "s", "s", "i", "o", "n">>,
     <<"h", "e", "l", "m", "e", "t">>,
     <<"m", "o", "r", "g", "a", "n">>
    >>

\* nil
NoRisk ==
    [found |-> FALSE, PackageName |-> <<>>, SimilarTo |-> <<>>, Distance |-> 0,
     Confidence |-> ""]

\* mutant: an entry as close as the best so far replaces it
ClosestPopularLastTie(name, start) ==
    LET distance == [i \in 1..Len(popularPackages) |->
                        LevenshteinDistance(name, popularPackages[i])]
        closer == {i \in 1..Len(popularPackages) : distance[i] < start}
        best == CHOOSE i \in closer :
                    \A k \in closer : distance[i] < distance[k] \/ (distance[i] = distance[k] /\ i >= k)
    IN  IF \E i \in 1..Len(popularPackages) : distance[i] = 0
        THEN [exact |-> TRUE, minDistance |-> 0, bestMatch |-> <<>>]
        ELSE IF closer = {}
        THEN [exact |-> FALSE, minDistance |-> start, bestMatch |-> <<>>]
        ELSE [exact |-> FALSE, minDistance |-> distance[best],
              bestMatch |-> popularPackages[best]]

\* the loop over popularPackages: an exact match ends it with nil; otherwise
\* minDistance starts at start and an entry replaces bestMatch when it is
\* strictly closer, so the loop ends with the first of the closest entries
\* (or with no entry, when none is closer than start)
ClosestPopular(name, start) ==
    LET distance == [i \in 1..Len(popularPackages) |->
                        LevenshteinDistance(name, popularPackages[i])]
        closer == {i \in 1..Len(popularPackages) : distance[i] < start}
        best == CHOOSE i \in closer :
                    \A k \in closer : distance[i] < distance[k] \/ (distance[i] = distance[k] /\ i <= k)
    IN  IF \E i \in 1..Len(popularPackages) : distance[i] = 0
        THEN [exact |-> TRUE, minDistance |-> 0, bestMatch |-> <<>>]
        ELSE IF closer = {}
        THEN [exact |-> FALSE, minDistance |-> start, bestMatch |-> <<>>]
        ELSE [exact |-> FALSE, minDistance |-> distance[best],
              bestMatch |-> popularPackages[best]]

\* the risk returned for the closest entry, if it is close enough
RiskWithin(name, limit, closest) ==
    IF ~closest.exact /\ closest.minDistance <= limit
    THEN [found |-> TRUE, PackageName |-> name, SimilarTo |-> closest.bestMatch,
          Distance |-> closest.minDistance,
          Confidence |-> IF closest.minDistance = 2 THEN "medium"
                         ELSE IF closest.minDistance > 2 THEN "low"
                         ELSE "high"]
    ELSE NoRisk

\* mutant: a threshold of zero or less is used as it is
CheckTyposquattingNoDefault(name, t) ==
    RiskWithin(name, t, ClosestPopular(name, t + 1))

CheckTyposquatting(name, t) ==
    LET limit == IF t <= 0 THEN 2 ELSE t
    IN  RiskWithin(name, limit, ClosestPopular(name, limit + 1))

\* the names of the modelled calls: entries of the list, in other case, with
\* one, two, three and four edits, names far from every entry, and a name
\* as close to one entry (sass) as to a later one (less)
TypoNames ==
    {<<"r", "e", "a", "c", "t">>,
     <<"R", "e", "a", "c", "t">>,
     <<"r", "a", "e", "c", "t">>,
     <<"l", "o", "d", "e", "s", "h">>,
     <<"r", "e", "a", "c", "t", "t">>,
     <<"e", "x", "p", "r", "e", "s">>,
     <<"m", "y", "-", "u", "n", "i", "q", "u", "e">>,
     <<>>,
     <<"q", "q">>,
     <<"p", "r", "e", "a", "c", "t">>,
     <<"r", "e", "a", "c", "t", "t", "t">>,
     <<"r", "e", "a", "c", "t", "t", "t", "t">>,
     <<"R", "E", "A", "C", "T", "-", "D", "O", "M">>,
     <<"s", "e", "s", "s">>}

TypoThresholds == (0 - 1)..MaxThreshold

TypoCalled(names, thresholds) ==
    /\ typoPc = "called"
    /\ packageName \in names
    /\ threshold \in thresholds
    /\ typoRisk = NoRisk

TypoReturns ==
    /\ typoPc = "called"
    /\ typoPc' = "returned"
    /\ typoRisk' = CheckTyposquatting(packageName, threshold)
    /\ UNCHANGED <<packageName, threshold>>

Typosquat ==
    /\ TypoReturns
    /\ UNCHANGED <<auditVars, scanVars, reqVars, runVars, pomVars, levVars, maintVars, fetchVars, filterVars, manifestVars, fixVars, reportVars>>

\* ====================================================================
\* AnalyzeMaintainerRisk
\* ====================================================================
\* A time.Time is a whole number of years after the zero Time (year 1).

\* most maintainers a package's metadata lists
MaxMaintainers == 2
\* the latest year of a last-modified time or of the clock
MaxYear == 5

IsZero(t) == t = 0
AddDate(t, years) == t + years
Before(t, u) == t < u

\* no *MaintainerRisk: the function returned nil
NoMaintainerRisk ==
    [found |-> FALSE, PackageName |-> "", Issues |-> <<>>, RiskLevel |-> "",
     LastUpdate |-> 0, MaintainerCount |-> 0]

\* the first check: the last update time
CheckLastUpdate(risk, meta, clock) ==
    IF ~IsZero(meta.LastModified) /\ Before(meta.LastModified, AddDate(clock, 0 - 2))
    THEN [risk EXCEPT !.Issues = Append(@, <<"Not updated in over 2 years", meta.LastModified>>),
                      !.RiskLevel = "medium"]
    ELSE risk

\* mutant: zero maintainers raise the level only from "low", as one maintainer does
CheckMaintainerCountKeepsLevel(risk, meta) ==
    IF Len(meta.Maintainers) = 1
    THEN [risk EXCEPT !.Issues = Append(@, <<"Single maintainer">>),
                      !.RiskLevel = IF @ = "low" THEN "medium" ELSE @]
    ELSE IF Len(meta.Maintainers) = 0
    THEN [risk EXCEPT !.Issues = Append(@, <<"No maintainers listed">>),
                      !.RiskLevel = IF @ = "low" THEN "high" ELSE @]
    ELSE risk

\* the second check: the maintainer count
CheckMaintainerCount(risk, meta) ==
    IF Len(meta.Maintainers) = 1
    THEN [risk EXCEPT !.Issues = Append(@, <<"Single maintainer">>),
                      !.RiskLevel = IF @ = "low" THEN "medium" ELSE @]
    ELSE IF Len(meta.Maintainers) = 0
    THEN [risk EXCEPT !.Issues = Append(@, <<"No maintainers listed">>),
                      !.RiskLevel = "high"]
    ELSE risk

AnalyzeMaintainerRisk(meta, clock) ==
    LET risk == [found |-> TRUE,
                 PackageName |-> meta.Name,
                 Issues |-> <<>>,
                 RiskLevel |-> "low",
                 LastUpdate |-> meta.LastModified,
                 MaintainerCount |-> Len(meta.Maintainers)]
        checked == CheckMaintainerCount(CheckLastUpdate(risk, meta, clock), meta)
    IN  IF Len(checked.Issues) = 0 THEN NoMaintainerRisk ELSE checked

\* the metadata of a package: up to count maintainers, last modified in one of
\* the years (0: no "modified" time was parsed)
Metadata(counts, years) ==
    [Name : {"left-pad"},
     Maintainers : {[i \in 1..n |-> [Name |-> i]] : n \in counts},
     LastModified : years]

MaintCalled(counts, years, clocks) ==
    /\ maintPc = "called"
    /\ metadata \in Metadata(counts, years)
    /\ now \in clocks
    /\ maintRisk = NoMaintainerRisk

\* AnalyzeMaintainerRisk is called for a package with two maintainers
MaintUnused == MaintCalled({2}, {0}, {1})

MaintReturns ==
    /\ maintPc = "called"
    /\ maintPc' = "returned"
    /\ maintRisk' = AnalyzeMaintainerRisk(metadata, now)
    /\ UNCHANGED <<metadata, now>>

Maintainer ==
    /\ MaintReturns
    /\ UNCHANGED <<auditVars, scanVars, reqVars, runVars, pomVars, levVars, typoVars, fetchVars, filterVars, manifestVars, fixVars, reportVars>>

\* ====================================================================
\* FetchPackageMetadata
\* ====================================================================
\* A *PackageMetadata is [ptr, body]: ptr tells the allocations apart (the
\* number of the call that allocated it), body is the document it was decoded
\* from.

\* most calls of FetchPackageMetadata in one process
MaxFetches == 3

NilMetadata == [ptr |-> 0, body |-> ""]

\* what the registry does with a GET: the request fails, the status is not
\* 200, the body cannot be read, the body is not the JSON of a
\* PackageMetadata, or one of two revisions of the document arrives
Responses ==
    {[err |-> e, body |-> ""] : e \in {"fetch", "status", "read", "parse"}}
    \cup {[err |-> "nil", body |-> b] : b \in {"revision 1", "revision 2"}}

\* mutant: the cache is not consulted before the request
FetchPackageMetadataAlwaysRequests(name, response, cache, call) ==
    IF response.err # "nil"
    THEN [metadata |-> NilMetadata, err |-> response.err, cache |-> cache, request |-> TRUE]
    ELSE LET fetched == [ptr |-> call, body |-> response.body]
         IN  [metadata |-> fetched, err |-> "nil",
              cache |-> [n \in DOMAIN cache \cup {name} |->
                            IF n = name THEN fetched ELSE cache[n]],
              request |-> TRUE]

\* name: the argument; response: what the registry would answer; cache: the
\* map before the call; call: the number of this call.  The value tells what
\* is returned, the map after the call, and whether a request was sent
FetchPackageMetadata(name, response, cache, call) ==
    IF name \in DOMAIN cache
    THEN [metadata |-> cache[name], err |-> "nil", cache |-> cache, request |-> FALSE]
    ELSE IF response.err # "nil"
    THEN [metadata |-> NilMetadata, err |-> response.err, cache |-> cache, request |-> TRUE]
    ELSE LET fetched == [ptr |-> call, body |-> response.body]
         IN  [metadata |-> fetched, err |-> "nil",
              cache |-> [n \in DOMAIN cache \cup {name} |->
                            IF n = name THEN fetched ELSE cache[n]],
              request |-> TRUE]

FetchedNames == {"react", "lodash"}

\* make(map[string]*PackageMetadata)
EmptyCache == [n \in {} |-> NilMetadata]

\* the process has called FetchPackageMetadata no times
FetchUnused ==
    /\ metadataCache = EmptyCache
    /\ fetches = <<>>

FetchCall(name, response) ==
    /\ Len(fetches) < MaxFetches
    /\ LET returned == FetchPackageMetadata(name, response, metadataCache, Len(fetches) + 1)
       IN  /\ metadataCache' = returned.cache
           /\ fetches' = Append(fetches, [name |-> name,
                                          metadata |-> returned.metadata,
                                          err |-> returned.err,
                                          request |-> returned.request])

Fetch ==
    /\ \E name \in FetchedNames, response \in Responses :
           FetchCall(name, response)
    /\ UNCHANGED <<auditVars, scanVars, reqVars, runVars, pomVars, levVars, typoVars, maintVars, filterVars, manifestVars, fixVars, reportVars>>

\* ====================================================================
\* FilterBySeverity, called on its own
\* ====================================================================

\* most vulnerabilities in the list handed to FilterBySeverity
MaxListed == 3

\* the Severity constants of the package
SeverityConstants == {"info", "low", "moderate", "high", "critical"}

\* the lists of up to MaxListed vulnerabilities, told apart by name, each with
\* one of the Severity constants or with the empty Severity of an entry that
\* had no "severity" member
VulnerabilityLists ==
    UNION {[1..n -> SeverityConstants \cup {""}] : n \in 0..MaxListed}

Listed(severities) ==
    [i \in 1..Len(severities) |-> [Name |-> i, Severity |-> severities[i]]]

FilterCalled(lists, minimums) ==
    /\ filterPc = "called"
    /\ unfiltered \in {Listed(l) : l \in lists}
    /\ minimum \in minimums
    /\ filtered = <<>>

\* FilterBySeverity is called with no vulnerabilities
FilterUnused == FilterCalled({<<>>}, {"info"})

FilterReturns ==
    /\ filterPc = "called"
    /\ filterPc' = "returned"
    /\ filtered' = FilterBySeverity(unfiltered, minimum)
    /\ UNCHANGED <<unfiltered, minimum>>

Filter ==
    /\ FilterReturns
    /\ UNCHANGED <<auditVars, scanVars, reqVars, runVars, pomVars, levVars, typoVars, maintVars, fetchVars, manifestVars, fixVars, reportVars>>

\* ====================================================================
\* ParsePipfile, ParsePyprojectToml, ParseGoMod
\* ====================================================================
\* The three parsers read their file line by line and keep one flag between
\* the lines.  A line is [text, ...] with the text and what it was written as.

\* most lines a Pipfile, pyproject.toml or go.mod holds
MaxManifestLines == 3

Quote == "\""

\* what the body of a parser's loop does with one line: the flag afterwards
\* and the packages appended
Parsed(flag, pkgs) == [inSection |-> flag, packages |-> pkgs]

\* ---- ParsePipfile
\* the common start of pkgRegex and simpleRegex: ^([a-zA-Z0-9\-_\.]+)\s*=\s*
\* (0 when the line does not start so, else the index after it)
PipfileKey(line) ==
    LET nameEnd == Span(line, 1, NameChars)
        eq == Span(line, nameEnd, Space)
    IN  IF nameEnd > 1 /\ eq <= Len(line) /\ line[eq] = "="
        THEN Span(line, eq + 1, Space)
        ELSE 0

\* pkgRegex.FindStringSubmatch: ^([a-zA-Z0-9\-_\.]+)\s*=\s*"==([0-9\.]+)"
PipfilePkgRegex(line) ==
    LET value == PipfileKey(line)
        verEnd == Span(line, value + 3, Digits \cup {"."})
    IN  IF /\ value > 0
           /\ value + 2 <= Len(line)
           /\ SubSeq(line, value, value + 2) = <<Quote, "=", "=">>
           /\ verEnd > value + 3
           /\ verEnd <= Len(line)
           /\ line[verEnd] = Quote
        THEN [matched |-> TRUE,
              name |-> SubSeq(line, 1, Span(line, 1, NameChars) - 1),
              version |-> SubSeq(line, value + 3, verEnd - 1)]
        ELSE [matched |-> FALSE, name |-> <<>>, version |-> <<>>]

\* simpleRegex.FindStringSubmatch: ^([a-zA-Z0-9\-_\.]+)\s*=\s*"\*"
PipfileSimpleRegex(line) ==
    LET value == PipfileKey(line)
    IN  IF /\ value > 0
           /\ value + 2 <= Len(line)
           /\ SubSeq(line, value, value + 2) = <<Quote, "*", Quote>>
        THEN [matched |-> TRUE, name |-> SubSeq(line, 1, Span(line, 1, NameChars) - 1)]
        ELSE [matched |-> FALSE, name |-> <<>>]

\* the body of ParsePipfile's loop for one line
ParsePipfileLine(text, lineNum, inPackagesSection) ==
    LET line == TrimSpace(text)
        pin == PipfilePkgRegex(line)
        any == PipfileSimpleRegex(line)
    IN  IF line = <<"[", "p", "a", "c", "k", "a", "g", "e", "s", "]">> THEN Parsed(TRUE, <<>>)
        ELSE IF HasPrefix(line, <<"[">>) /\ line # <<"[", "p", "a", "c", "k", "a", "g", "e", "s", "]">> THEN Parsed(FALSE, <<>>)
        ELSE IF inPackagesSection /\ line # <<>> /\ ~HasPrefix(line, <<"#">>)
        THEN IF pin.matched
             THEN Parsed(inPackagesSection,
                         <<[Name |-> TrimSpace(pin.name), Version |-> TrimSpace(pin.version),
                            Line |-> lineNum]>>)
             ELSE IF any.matched
             THEN Parsed(inPackagesSection,
                         <<[Name |-> TrimSpace(any.name), Version |-> <<>>, Line |-> lineNum]>>)
             ELSE Parsed(inPackagesSection, <<>>)
        ELSE Parsed(inPackagesSection, <<>>)

\* the lines of the modelled Pipfiles: section headers, an exact pin written
\* tight and loose, a pin of a pre-release, a wildcard, a range, a comment and
\* a blank line
PipfileLines ==
    {[kind |-> "header", name |-> <<"p", "a", "c", "k", "a", "g", "e", "s">>, version |-> <<>>, text |-> <<"[", "p", "a", "c", "k", "a", "g", "e", "s", "]">>],
     [kind |-> "header", name |-> <<"d", "e", "v", "-", "p", "a", "c", "k", "a", "g", "e", "s">>, version |-> <<>>, text |-> <<"[", "d", "e", "v", "-", "p", "a", "c", "k", "a", "g", "e", "s", "]">>],
     [kind |-> "header", name |-> <<"s", "o", "u", "r", "c", "e">>, version |-> <<>>, text |-> <<"[", "[", "s", "o", "u", "r", "c", "e", "]", "]">>],
     [kind |-> "pin", name |-> <<"f", "l", "a", "s", "k">>, version |-> <<"2", ".", "0", ".", "1">>, text |-> <<"f", "l", "a", "s", "k", " ", "=", " ", "\"", "=", "=", "2", ".", "0", ".", "1", "\"">>],
     [kind |-> "pin", name |-> <<"z", "o", "p", "e", ".", "i", "-", "2">>, version |-> <<"1", ".", "0">>, text |-> <<" ", "z", "o", "p", "e", ".", "i", "-", "2", "=", "\"", "=", "=", "1", ".", "0", "\"", " ">>],
     [kind |-> "pin", name |-> <<"u", "v", "l", "o", "o", "p">>, version |-> <<"0", ".", "1", "7", ".", "0", "r", "c", "1">>,
      text |-> <<"u", "v", "l", "o", "o", "p", " ", "=", " ", "\"", "=", "=", "0", ".", "1", "7", ".", "0", "r", "c", "1", "\"">>],
     [kind |-> "any", name |-> <<"r", "e", "q", "u", "e", "s", "t", "s">>, version |-> <<>>, text |-> <<"r", "e", "q", "u", "e", "s", "t", "s", " ", "=", " ", "\"", "*", "\"">>],
     [kind |-> "range", name |-> <<"d", "j", "a", "n", "g", "o">>, version |-> <<>>, text |-> <<"d", "j", "a", "n", "g", "o", " ", "=", " ", "\"", ">", "=", "3", ".", "0", "\"">>],
     [kind |-> "comment", name |-> <<>>, version |-> <<>>, text |-> <<"#", " ", "f", "l", "a", "s", "k", " ", "=", " ", "\"", "=", "=", "1", ".", "0", "\"">>],
     [kind |-> "blank", name |-> <<>>, version |-> <<>>, text |-> <<>>]}

\* ---- ParsePyprojectToml
\* the first index from i on whose character is in class (Len(s)+1 if none)
RECURSIVE SpanUntil(_, _, _)
SpanUntil(s, i, class) ==
    IF i > Len(s) \/ s[i] \in class THEN i ELSE SpanUntil(s, i + 1, class)

\* the last index of s that holds ch (0 if none)
RECURSIVE LastIndex(_, _, _)
LastIndex(s, i, ch) ==
    IF i = 0 \/ s[i] = ch THEN i ELSE LastIndex(s, i - 1, ch)

\* "([a-zA-Z0-9\-_\.]+)\s*([=<>~!]+)\s*([0-9\.]+.*)" matched with its first
\* quote at q: the classes of neighbouring groups are disjoint, so each takes
\* the longest run, and .* runs to the last quote of the line
PyprojectMatchAt(line, q) ==
    LET nameEnd == Span(line, q + 1, NameChars)
        opStart == Span(line, nameEnd, Space)
        opEnd == Span(line, opStart, OpChars)
        verStart == Span(line, opEnd, Space)
        closing == LastIndex(line, Len(line), Quote)
    IN  IF /\ line[q] = Quote
           /\ nameEnd > q + 1
           /\ opEnd > opStart
           /\ verStart <= Len(line)
           /\ line[verStart] \in Digits \cup {"."}
           /\ closing > verStart
        THEN [matched |-> TRUE,
              name |-> SubSeq(line, q + 1, nameEnd - 1),
              op |-> SubSeq(line, opStart, opEnd - 1),
              version |-> SubSeq(line, verStart, closing - 1)]
        ELSE [matched |-> FALSE, name |-> <<>>, op |-> <<>>, version |-> <<>>]

\* pkgRegex.FindStringSubmatch: the leftmost match
PyprojectPkgRegex(line) ==
    LET starts == {q \in 1..Len(line) : PyprojectMatchAt(line, q).matched}
    IN  IF starts = {} THEN [matched |-> FALSE, name |-> <<>>, op |-> <<>>, version |-> <<>>]
        ELSE PyprojectMatchAt(line, CHOOSE q \in starts : \A other \in starts : q <= other)

\* the body of ParsePyprojectToml's loop for one line
ParsePyprojectLine(text, lineNum, inDependenciesSection) ==
    LET line == TrimSpace(text)
        m == PyprojectPkgRegex(line)
    IN  IF Contains(line, <<"d", "e", "p", "e", "n", "d", "e", "n", "c", "i", "e", "s">>) /\ Contains(line, <<"[">>)
        THEN Parsed(TRUE, <<>>)
        ELSE IF inDependenciesSection /\ Contains(line, <<"]">>)
        THEN Parsed(FALSE, <<>>)
        ELSE IF inDependenciesSection /\ line # <<>> /\ ~HasPrefix(line, <<"#">>) /\ m.matched
        THEN Parsed(inDependenciesSection,
                    <<[Name |-> TrimSpace(m.name),
                       Version |-> IF TrimSpace(m.op) # <<"=", "=">> THEN <<>>
                                   ELSE TrimSpace(m.version),
                       Line |-> lineNum]>>)
        ELSE Parsed(inDependenciesSection, <<>>)

\* a quoted requirement of a dependency array
Requirement(name, op, version) == [name |-> name, op |-> op, version |-> version]

\* the lines of the modelled pyproject.toml files: opens / closes tell whether
\* the line holds the bracket that opens / closes a dependency array, strings
\* are the quoted requirements on it
PyprojectLines ==
    {[opens |-> TRUE, closes |-> FALSE, strings |-> <<>>, text |-> <<"d", "e", "p", "e", "n", "d", "e", "n", "c", "i", "e", "s", " ", "=", " ", "[">>],
     [opens |-> TRUE, closes |-> TRUE,
      strings |-> <<Requirement(<<"f", "l", "a", "s", "k">>, <<"=", "=">>, <<"2", ".", "0", ".", "1">>)>>,
      text |-> <<"d", "e", "p", "e", "n", "d", "e", "n", "c", "i", "e", "s", " ", "=", " ", "[", "\"", "f", "l", "a", "s", "k", "=", "=", "2", ".", "0", ".", "1", "\"", "]">>],
     [opens |-> FALSE, closes |-> FALSE,
      strings |-> <<Requirement(<<"f", "l", "a", "s", "k">>, <<"=", "=">>, <<"2", ".", "0", ".", "1">>)>>,
      text |-> <<" ", " ", " ", " ", "\"", "f", "l", "a", "s", "k", "=", "=", "2", ".", "0", ".", "1", "\"", ",">>],
     [opens |-> FALSE, closes |-> FALSE,
      strings |-> <<Requirement(<<"r", "e", "q", "u", "e", "s", "t", "s">>, <<">", "=">>, <<"2", ".", "0">>)>>,
      text |-> <<" ", " ", " ", " ", "\"", "r", "e", "q", "u", "e", "s", "t", "s", " ", ">", "=", " ", "2", ".", "0", "\"", ",">>],
     [opens |-> FALSE, closes |-> FALSE,
      strings |-> <<Requirement(<<"u", "v", "i", "c", "o", "r", "n">>, <<"=", "=">>, <<"0", ".", "2", "0", ".", "0">>)>>,
      text |-> <<" ", " ", " ", " ", "\"", "u", "v", "i", "c", "o", "r", "n", "[", "s", "t", "a", "n", "d", "a", "r", "d", "]", "=", "=", "0", ".", "2", "0", ".", "0", "\"", ",">>],
     [opens |-> FALSE, closes |-> TRUE, strings |-> <<>>, text |-> <<"]">>],
     [opens |-> FALSE, closes |-> FALSE, strings |-> <<>>, text |-> <<"n", "a", "m", "e", " ", "=", " ", "\"", "d", "e", "m", "o", "\"">>],
     [opens |-> FALSE, closes |-> FALSE, strings |-> <<>>, text |-> <<"#", " ", "\"", "f", "l", "a", "s", "k", "=", "=", "1", ".", "0", "\"", ",">>],
     [opens |-> FALSE, closes |-> FALSE, strings |-> <<>>, text |-> <<>>]}

\* ---- ParseGoMod
PathChars == NameChars \cup {"/"}

NoMatch == [matched |-> FALSE, path |-> <<>>, version |-> <<>>]

\* [0-9]+\.[0-9]+\.[0-9]+[^\s]* matched from i: the index after the match,
\* 0 when there is none
SemverEnd(line, i) ==
    LET major == Span(line, i, Digits)
        minor == Span(line, major + 1, Digits)
        patch == Span(line, minor + 1, Digits)
    IN  IF /\ major > i /\ major <= Len(line) /\ line[major] = "."
           /\ minor > major + 1 /\ minor <= Len(line) /\ line[minor] = "."
           /\ patch > minor + 1
        THEN SpanUntil(line, patch, Space)
        ELSE 0

\* ([a-zA-Z0-9\-_\./]+)\s+v?([0-9]+\.[0-9]+\.[0-9]+[^\s]*) matched from start
ModuleAt(line, start) ==
    LET pathEnd == Span(line, start, PathChars)
        gapEnd == Span(line, pathEnd, Space)
        verStart == IF gapEnd <= Len(line) /\ line[gapEnd] = "v" THEN gapEnd + 1 ELSE gapEnd
        verEnd == SemverEnd(line, verStart)
    IN  IF pathEnd > start /\ gapEnd > pathEnd /\ verEnd > 0
        THEN [matched |-> TRUE,
              path |-> SubSeq(line, start, pathEnd - 1),
              version |-> SubSeq(line, verStart, verEnd - 1)]
        ELSE NoMatch

\* requireRegex, anchored after any leading white space
requireRegex(line) == ModuleAt(line, Span(line, 1, Space))

\* simpleRequireRegex, anchored at the word require
simpleRequireRegex(line) ==
    LET word == <<"r", "e", "q", "u", "i", "r", "e">>
        start == Span(line, Len(word) + 1, Space)
    IN  IF HasPrefix(line, word) /\ start > Len(word) + 1
        THEN ModuleAt(line, start)
        ELSE NoMatch

GoModule(m, lineNum) == [Name |-> m.path, Version |-> m.version, Line |-> lineNum]

\* mutant: entries marked as indirect are emitted like the others
ParseGoModLineKeepsIndirect(line, lineNum, inRequireBlock) ==
    LET trimmedLine == TrimSpace(line)
    IN  IF trimmedLine = <<>> \/ HasPrefix(trimmedLine, <<"/", "/">>)
        THEN Parsed(inRequireBlock, <<>>)
        ELSE IF HasPrefix(trimmedLine, <<"r", "e", "q", "u", "i", "r", "e", " ", "(">>)
        THEN Parsed(TRUE, <<>>)
        ELSE IF inRequireBlock /\ Contains(trimmedLine, <<")">>)
        THEN Parsed(FALSE, <<>>)
        ELSE IF ~inRequireBlock /\ HasPrefix(trimmedLine, <<"r", "e", "q", "u", "i", "r", "e", " ">>)
        THEN IF simpleRequireRegex(trimmedLine).matched
             THEN Parsed(inRequireBlock, <<GoModule(simpleRequireRegex(trimmedLine), lineNum)>>)
             ELSE Parsed(inRequireBlock, <<>>)
        ELSE IF inRequireBlock /\ requireRegex(line).matched
        THEN Parsed(inRequireBlock, <<GoModule(requireRegex(line), lineNum)>>)
        ELSE Parsed(inRequireBlock, <<>>)

\* the body of ParseGoMod's loop for one line
ParseGoModLine(line, lineNum, inRequireBlock) ==
    LET trimmedLine == TrimSpace(line)
    IN  IF trimmedLine = <<>> \/ HasPrefix(trimmedLine, <<"/", "/">>)
        THEN Parsed(inRequireBlock, <<>>)
        ELSE IF HasPrefix(trimmedLine, <<"r", "e", "q", "u", "i", "r", "e", " ", "(">>)
        THEN Parsed(TRUE, <<>>)
        ELSE IF inRequireBlock /\ Contains(trimmedLine, <<")">>)
        THEN Parsed(FALSE, <<>>)
        ELSE IF ~inRequireBlock /\ HasPrefix(trimmedLine, <<"r", "e", "q", "u", "i", "r", "e", " ">>)
        THEN IF simpleRequireRegex(trimmedLine).matched
             THEN Parsed(inRequireBlock, <<GoModule(simpleRequireRegex(trimmedLine), lineNum)>>)
             ELSE Parsed(inRequireBlock, <<>>)
        ELSE IF /\ inRequireBlock
                /\ requireRegex(line).matched
                /\ ~Contains(line, <<"/", "/", " ", "i", "n", "d", "i", "r", "e", "c", "t">>)
        THEN Parsed(inRequireBlock, <<GoModule(requireRegex(line), lineNum)>>)
        ELSE Parsed(inRequireBlock, <<>>)

\* the lines of the modelled go.mod files, tagged with what they are
GoModLines ==
    {[kind |-> "module", path |-> <<>>, version |-> <<>>, text |-> <<"m", "o", "d", "u", "l", "e", " ", "e", "x", "a", "m", "p", "l", "e", ".", "c", "o", "m", "/", "m">>],
     [kind |-> "go", path |-> <<>>, version |-> <<>>, text |-> <<"g", "o", " ", "1", ".", "2", "1">>],
     [kind |-> "open", path |-> <<>>, version |-> <<>>, text |-> <<"r", "e", "q", "u", "i", "r", "e", " ", "(">>],
     [kind |-> "close", path |-> <<>>, version |-> <<>>, text |-> <<")">>],
     [kind |-> "entry", path |-> <<"g", "i", "t", "h", "u", "b", ".", "c", "o", "m", "/", "a", "/", "b">>, version |-> <<"1", ".", "6", ".", "0">>,
      text |-> <<"\t", "g", "i", "t", "h", "u", "b", ".", "c", "o", "m", "/", "a", "/", "b", " ", "v", "1", ".", "6", ".", "0">>],
     [kind |-> "indirect", path |-> <<"g", "o", "p", "k", "g", ".", "i", "n", "/", "y", ".", "v", "2">>, version |-> <<"2", ".", "2", ".", "2">>,
      text |-> <<"\t", "g", "o", "p", "k", "g", ".", "i", "n", "/", "y", ".", "v", "2", " ", "v", "2", ".", "2", ".", "2", " ", "/", "/", " ", "i", "n", "d", "i", "r", "e", "c", "t">>],
     [kind |-> "single", path |-> <<"x", ".", "o", "r", "g", "/", "c">>, version |-> <<"0", ".", "9", ".", "1", "-", "r", "c", ".", "1">>,
      text |-> <<"r", "e", "q", "u", "i", "r", "e", " ", "x", ".", "o", "r", "g", "/", "c", " ", "v", "0", ".", "9", ".", "1", "-", "r", "c", ".", "1">>],
     [kind |-> "single", path |-> <<"x", ".", "o", "r", "g", "/", "d">>, version |-> <<"0", ".", "1", ".", "0">>,
      text |-> <<"r", "e", "q", "u", "i", "r", "e", " ", "x", ".", "o", "r", "g", "/", "d", " ", "v", "0", ".", "1", ".", "0", " ", "/", "/", " ", "i", "n", "d", "i", "r", "e", "c", "t">>],
     [kind |-> "replace", path |-> <<>>, version |-> <<>>,
      text |-> <<"r", "e", "p", "l", "a", "c", "e", " ", "x", ".", "o", "r", "g", "/", "c", " ", "v", "0", ".", "9", ".", "1", " ", "=", ">", " ", ".", ".", "/", "c">>],
     [kind |-> "exclude", path |-> <<>>, version |-> <<>>,
      text |-> <<"e", "x", "c", "l", "u", "d", "e", " ", "x", ".", "o", "r", "g", "/", "c", " ", "v", "0", ".", "9", ".", "0">>],
     [kind |-> "comment", path |-> <<>>, version |-> <<>>, text |-> <<"/", "/", " ", "t", "o", "o", "l", "s">>],
     [kind |-> "blank", path |-> <<>>, version |-> <<>>, text |-> <<>>]}

\* ---- the three parsers as one line reader
ManifestFiles == {"Pipfile", "pyproject.toml", "go.mod"}

ManifestUnused ==
    /\ parsing = ""
    /\ mfPc = "idle"
    /\ mfLines = <<>>
    /\ inSection = FALSE
    /\ mfPackages = <<>>
    /\ mfErr = NoError

\* os.Open, then the declarations before the loop
OpenManifest(filename, opened) ==
    /\ mfPc = "idle"
    /\ parsing' = filename
    /\ mfLines' = <<>>
    /\ inSection' = FALSE
    /\ mfPackages' = <<>>
    /\ mfPc' = IF opened THEN "scanning" ELSE "done"
    /\ mfErr' = IF opened THEN NoError ELSE "failed to open"

\* one turn of the loop over scanner.Scan()
ScanLine(parsed, l) ==
    /\ mfPc = "scanning"
    /\ Len(mfLines) < MaxManifestLines
    /\ mfLines' = Append(mfLines, l)
    /\ inSection' = parsed.inSection
    /\ mfPackages' = mfPackages \o parsed.packages
    /\ UNCHANGED <<parsing, mfPc, mfErr>>

ReadPipfileLine(l) ==
    /\ parsing = "Pipfile"
    /\ ScanLine(ParsePipfileLine(l.text, Len(mfLines) + 1, inSection), l)

ReadPyprojectLine(l) ==
    /\ parsing = "pyproject.toml"
    /\ ScanLine(ParsePyprojectLine(l.text, Len(mfLines) + 1, inSection), l)

ReadGoModLine(l) ==
    /\ parsing = "go.mod"
    /\ ScanLine(ParseGoModLine(l.text, Len(mfLines) + 1, inSection), l)

\* scanner.Scan() returned false: scanner.Err() decides the result
EndOfManifest(readOk) ==
    /\ mfPc = "scanning"
    /\ mfPc' = "done"
    /\ mfErr' = IF readOk THEN NoError ELSE "error reading"
    /\ mfPackages' = IF readOk THEN mfPackages ELSE <<>>
    /\ UNCHANGED <<parsing, mfLines, inSection>>

Open ==
    /\ \E filename \in ManifestFiles, ok \in BOOLEAN :
           OpenManifest(filename, ok)
    /\ UNCHANGED <<auditVars, scanVars, reqVars, runVars, pomVars, levVars, typoVars, maintVars, fetchVars, filterVars, fixVars, reportVars>>
PipfileLine ==
    /\ \E l \in PipfileLines :
           ReadPipfileLine(l)
    /\ UNCHANGED <<auditVars, scanVars, reqVars, runVars, pomVars, levVars, typoVars, maintVars, fetchVars, filterVars, fixVars, reportVars>>
PyprojectLine ==
    /\ \E l \in PyprojectLines :
           ReadPyprojectLine(l)
    /\ UNCHANGED <<auditVars, scanVars, reqVars, runVars, pomVars, levVars, typoVars, maintVars, fetchVars, filterVars, fixVars, reportVars>>
GoModLine ==
    /\ \E l \in GoModLines :
           ReadGoModLine(l)
    /\ UNCHANGED <<auditVars, scanVars, reqVars, runVars, pomVars, levVars, typoVars, maintVars, fetchVars, filterVars, fixVars, reportVars>>
EndOfLines ==
    /\ \E ok \in BOOLEAN :
           EndOfManifest(ok)
    /\ UNCHANGED <<auditVars, scanVars, reqVars, runVars, pomVars, levVars, typoVars, maintVars, fetchVars, filterVars, fixVars, reportVars>>

\* ====================================================================
\* extractFixVersions
\* ====================================================================

\* most events of one vulnerability, over all its ranges
MaxEvents == 3

Event(introduced, fixed, lastAffected) ==
    [Introduced |-> introduced, Fixed |-> fixed, LastAffected |-> lastAffected]

\* the events of the modelled vulnerabilities: 1.0 occurs as an introduced
\* and as a fixed version, 2.0 as a fixed and as a last affected one
OsvEvents ==
    {Event("1.0", "", ""), Event("", "1.0", ""), Event("", "2.0", ""), Event("", "", "2.0")}

\* an event together with its place: the first of a new affected entry, the
\* first of a new range of the current entry, or the next of the current range
PlacedEvents == [event : OsvEvents, place : {"affected", "range", "next"}]

\* vuln.Affected built from placed events
RECURSIVE Nest(_)
Nest(placed) ==
    IF placed = <<>> THEN <<>>
    ELSE LET before == Nest(SubSeq(placed, 1, Len(placed) - 1))
             last == placed[Len(placed)]
             a == Len(before)
         IN  IF a = 0 \/ last.place = "affected"
             THEN Append(before, <<<<last.event>>>>)
             ELSE IF last.place = "range"
             THEN [before EXCEPT ![a] = Append(@, <<last.event>>)]
             ELSE [before EXCEPT ![a][Len(before[a])] = Append(@, last.event)]

AffectedLists == {Nest(placed) : placed \in SeqsUpTo(PlacedEvents, MaxEvents)}

\* mutant: a fixed version is appended whether or not it was seen before
VisitEventNoSeen(st, event) ==
    IF event.Fixed # ""
    THEN [fixVersions |-> Append(st.fixVersions, event.Fixed),
          seen |-> st.seen \cup {event.Fixed}]
    ELSE st

\* the body of the innermost loop
VisitEvent(st, event) ==
    IF event.Fixed # "" /\ event.Fixed \notin st.seen
    THEN [fixVersions |-> Append(st.fixVersions, event.Fixed),
          seen |-> st.seen \cup {event.Fixed}]
    ELSE st

\* for _, event := range vrange.Events
RECURSIVE VisitEvents(_, _)
VisitEvents(st, events) ==
    IF events = <<>> THEN st
    ELSE VisitEvents(VisitEvent(st, Head(events)), Tail(events))

\* for _, vrange := range affected.Ranges
RECURSIVE VisitRanges(_, _)
VisitRanges(st, ranges) ==
    IF ranges = <<>> THEN st
    ELSE VisitRanges(VisitEvents(st, Head(ranges)), Tail(ranges))

\* for _, affected := range vuln.Affected
RECURSIVE VisitAffected(_, _)
VisitAffected(st, affected) ==
    IF affected = <<>> THEN st
    ELSE VisitAffected(VisitRanges(st, Head(affected)), Tail(affected))

extractFixVersions(affected) ==
    VisitAffected([fixVersions |-> <<>>, seen |-> {}], affected).fixVersions

FixCalled(lists) ==
    /\ fixPc = "called"
    /\ fixVuln \in lists
    /\ fixVersions = <<>>

FixUnused == FixCalled({<<>>})

FixReturns ==
    /\ fixPc = "called"
    /\ fixPc' = "returned"
    /\ fixVersions' = extractFixVersions(fixVuln)
    /\ UNCHANGED fixVuln

ExtractFix ==
    /\ FixReturns
    /\ UNCHANGED <<auditVars, scanVars, reqVars, runVars, pomVars, levVars, typoVars, maintVars, fetchVars, filterVars, manifestVars, reportVars>>

\* ====================================================================
\* DetectSuspiciousPatterns, GenerateSecurityReport
\* ====================================================================

\* DetectSuspiciousPatterns begins with io.ReadAll(nil): ReadAll calls Read on
\* the nil io.Reader, a nil-pointer dereference, so the call panics for every
\* path before the file is looked at; no statement after it is reached
DetectSuspiciousPatterns(packageJSONPath) ==
    [panics |-> TRUE, patterns |-> <<>>, err |-> NoError]

\* the report before the checks
NewReport(name) ==
    [PackageName |-> name, TyposquattingRisk |-> NoRisk,
     MaintainerRisk |-> NoMaintainerRisk, SuspiciousPatterns |-> <<>>,
     OverallRiskLevel |-> "low"]

\* "Calculate overall risk level"
OverallRiskLevel(r) ==
    IF r.TyposquattingRisk.found /\ r.TyposquattingRisk.Confidence = "high" THEN "high"
    ELSE IF r.MaintainerRisk.found /\ r.MaintainerRisk.RiskLevel = "high" THEN "high"
    ELSE IF Len(r.SuspiciousPatterns) > 0
    THEN IF \E i \in 1..Len(r.SuspiciousPatterns) : r.SuspiciousPatterns[i].RiskLevel = "high"
         THEN "high"
         ELSE "medium"
    ELSE IF r.TyposquattingRisk.found \/ r.MaintainerRisk.found THEN "medium"
    ELSE r.OverallRiskLevel

\* what FetchPackageMetadata gives GenerateSecurityReport: an error, or the
\* metadata of the package
FetchResults ==
    {[err |-> "failed to fetch metadata", metadata |-> NilMetadata]}
    \cup {[err |-> NoError, metadata |-> m] : m \in Metadata(0..MaxMaintainers, 0..MaxYear)}

PackageJSONPaths == {"package.json", "missing/package.json"}

ReportCalled ==
    /\ reportPc = "called"
    /\ report = NewReport(<<>>)

ReportUnused == ReportCalled

\* the report is made and the typosquatting check runs with threshold 2
CheckTypo ==
    /\ reportPc = "called"
    /\ reportPc' = "checked"
    /\ report' = [NewReport(packageName) EXCEPT
                     !.TyposquattingRisk = CheckTyposquatting(packageName, 2)]

\* the metadata is fetched and, if that succeeded, the maintainer risk analysed
FetchAndAnalyze(fetched, clock) ==
    /\ reportPc = "checked"
    /\ reportPc' = "fetched"
    /\ report' = IF fetched.err = NoError
                 THEN [report EXCEPT
                          !.MaintainerRisk = AnalyzeMaintainerRisk(fetched.metadata, clock)]
                 ELSE report

\* the call of DetectSuspiciousPatterns and the rest of the function
DetectAndReturn(packageJSONPath) ==
    LET detected == DetectSuspiciousPatterns(packageJSONPath)
        found == IF detected.err = NoError
                 THEN [report EXCEPT !.SuspiciousPatterns = detected.patterns]
                 ELSE report
    IN  /\ reportPc = "fetched"
        /\ IF detected.panics
           THEN reportPc' = "panicked" /\ UNCHANGED report
           ELSE /\ reportPc' = "returned"
                /\ report' = [found EXCEPT !.OverallRiskLevel = OverallRiskLevel(found)]

ReportChecks ==
    /\ CheckTypo
    /\ UNCHANGED <<auditVars, scanVars, reqVars, runVars, pomVars, levVars, typoVars, maintVars, fetchVars, filterVars, manifestVars, fixVars>>
ReportFetches ==
    /\ \E fetched \in FetchResults, clock \in 1..MaxYear :
           FetchAndAnalyze(fetched, clock)
    /\ UNCHANGED <<auditVars, scanVars, reqVars, runVars, pomVars, levVars, typoVars, maintVars, fetchVars, filterVars, manifestVars, fixVars>>
ReportDetects ==
    /\ \E packageJSONPath \in PackageJSONPaths :
           DetectAndReturn(packageJSONPath)
    /\ UNCHANGED <<auditVars, scanVars, reqVars, runVars, pomVars, levVars, typoVars, maintVars, fetchVars, filterVars, manifestVars, fixVars>>

\* ====================================================================
\* Specifications
\* ====================================================================
\* the scanner before a tree is built, with an ordinary directory as its root
ScanUnused == ScanIdle({"project"}, {[kind |-> "dir", err |-> "none"]})

\* the command before a run, on a machine with npm and with the default flag
RunUnused == RunStarts({TRUE}, {"low"}, {<<>>})
\* no pom.xml is parsed
PomUnused == PomIdle({<<>>})
\* LevenshteinDistance is called with two empty strings
LevUnused == LevCalled({<<>>})
\* CheckTyposquatting is called with the empty name and the default threshold
TypoUnused == TypoCalled({<<>>}, {0})

InitAudit ==
    /\ AuditIdle
    /\ ScanUnused
    /\ ReqIdle /\ ReportUnused /\ FixUnused /\ ManifestUnused
    /\ FilterUnused
    /\ FetchUnused
    /\ MaintUnused
    /\ RunUnused
    /\ PomUnused
    /\ LevUnused
    /\ TypoUnused

NextAudit ==
    \/ StartPython
    \/ StartGo
    \/ StartMaven
    \/ Query

SpecAudit == InitAudit /\ [][NextAudit]_vars

InitScan ==
    /\ AuditIdle
    /\ ScanIdle(RootNames, RootStates)
    /\ ReqIdle /\ ReportUnused /\ FixUnused /\ ManifestUnused
    /\ FilterUnused
    /\ FetchUnused
    /\ MaintUnused
    /\ RunUnused
    /\ PomUnused
    /\ LevUnused
    /\ TypoUnused

NextScan ==
    \/ Create
    \/ Construct
    \/ Replace
    \/ Scan
    \/ Walk

SpecScan == InitScan /\ [][NextScan]_vars

InitReq ==
    /\ AuditIdle
    /\ ScanUnused
    /\ ReqIdle /\ ReportUnused /\ FixUnused /\ ManifestUnused
    /\ FilterUnused
    /\ FetchUnused
    /\ MaintUnused
    /\ RunUnused
    /\ PomUnused
    /\ LevUnused
    /\ TypoUnused

NextReq ==
    \/ OpenFile
    \/ NextLine
    \/ EndOfFile

SpecReq == InitReq /\ [][NextReq]_vars

InitRun ==
    /\ AuditIdle
    /\ ScanUnused
    /\ ReqIdle /\ ReportUnused /\ FixUnused /\ ManifestUnused
    /\ FilterUnused
    /\ FetchUnused
    /\ MaintUnused
    /\ RunStarts(BOOLEAN, SeverityFlags, ScanResults)
    /\ PomUnused
    /\ LevUnused
    /\ TypoUnused

NextRun ==
    \/ Detect
    \/ AuditNpm
    \/ AuditPython
    \/ AuditGo
    \/ AuditMaven
    \/ Report

SpecRun == InitRun /\ [][NextRun]_vars

InitPom ==
    /\ AuditIdle
    /\ ScanUnused
    /\ ReqIdle /\ ReportUnused /\ FixUnused /\ ManifestUnused
    /\ FilterUnused
    /\ FetchUnused
    /\ MaintUnused
    /\ RunUnused
    /\ PomIdle(PomDocuments)
    /\ LevUnused
    /\ TypoUnused

NextPom ==
    \/ ParsePom
    \/ AuditPom
    \/ Query

SpecPom == InitPom /\ [][NextPom]_vars

InitLev ==
    /\ AuditIdle
    /\ ScanUnused
    /\ ReqIdle /\ ReportUnused /\ FixUnused /\ ManifestUnused
    /\ FilterUnused
    /\ FetchUnused
    /\ MaintUnused
    /\ RunUnused
    /\ PomUnused
    /\ LevCalled(LevStrings)
    /\ TypoUnused

NextLev == Distance

SpecLev == InitLev /\ [][NextLev]_vars

InitTypo ==
    /\ AuditIdle
    /\ ScanUnused
    /\ ReqIdle /\ ReportUnused /\ FixUnused /\ ManifestUnused
    /\ FilterUnused
    /\ FetchUnused
    /\ MaintUnused
    /\ RunUnused
    /\ PomUnused
    /\ LevUnused
    /\ TypoCalled(TypoNames, TypoThresholds)

NextTypo == Typosquat

SpecTypo == InitTypo /\ [][NextTypo]_vars

InitMaint ==
    /\ AuditIdle
    /\ ScanUnused
    /\ ReqIdle /\ ReportUnused /\ FixUnused /\ ManifestUnused
    /\ FilterUnused
    /\ FetchUnused
    /\ RunUnused
    /\ PomUnused
    /\ LevUnused
    /\ TypoUnused
    /\ MaintCalled(0..MaxMaintainers, 0..MaxYear, 1..MaxYear)

NextMaint == Maintainer

SpecMaint == InitMaint /\ [][NextMaint]_vars

InitFetch ==
    /\ AuditIdle
    /\ ScanUnused
    /\ ReqIdle /\ ReportUnused /\ FixUnused /\ ManifestUnused
    /\ FilterUnused
    /\ RunUnused
    /\ PomUnused
    /\ LevUnused
    /\ TypoUnused
    /\ MaintUnused
    /\ FetchUnused

NextFetch == Fetch

SpecFetch == InitFetch /\ [][NextFetch]_vars

InitFilter ==
    /\ AuditIdle
    /\ ScanUnused
    /\ ReqIdle /\ ReportUnused /\ FixUnused /\ ManifestUnused
    /\ RunUnused
    /\ PomUnused
    /\ LevUnused
    /\ TypoUnused
    /\ MaintUnused
    /\ FetchUnused
    /\ FilterCalled(VulnerabilityLists, SeverityConstants)

NextFilter == Filter

SpecFilter == InitFilter /\ [][NextFilter]_vars

InitManifest ==
    /\ AuditIdle
    /\ ScanUnused
    /\ ReqIdle /\ ReportUnused /\ FixUnused
    /\ ManifestUnused
    /\ RunUnused
    /\ PomUnused
    /\ LevUnused
    /\ TypoUnused
    /\ MaintUnused
    /\ FetchUnused
    /\ FilterUnused

NextManifest ==
    \/ Open
    \/ PipfileLine
    \/ PyprojectLine
    \/ GoModLine
    \/ EndOfLines

SpecManifest == InitManifest /\ [][NextManifest]_vars

InitFix ==
    /\ AuditIdle
    /\ ScanUnused
    /\ ReqIdle /\ ReportUnused
    /\ ManifestUnused
    /\ RunUnused
    /\ PomUnused
    /\ LevUnused
    /\ TypoUnused
    /\ MaintUnused
    /\ FetchUnused
    /\ FilterUnused
    /\ FixCalled(AffectedLists)

NextFix == ExtractFix

SpecFix == InitFix /\ [][NextFix]_vars

InitReport ==
    /\ AuditIdle
    /\ ScanUnused
    /\ ReqIdle
    /\ ManifestUnused
    /\ RunUnused
    /\ PomUnused
    /\ LevUnused
    /\ TypoCalled(TypoNames, {2})
    /\ MaintUnused
    /\ FetchUnused
    /\ FilterUnused
    /\ FixUnused
    /\ ReportCalled

NextReport ==
    \/ ReportChecks
    \/ ReportFetches
    \/ ReportDetects

SpecReport == InitReport /\ [][NextReport]_vars

\* ====================================================================
\* Claims about one OSV-backed manifest audit (checked under SpecAudit)
\* ====================================================================

\* the vulnerabilities the successful queries of a log returned, as
\* <<package name, vulnerability id>> in query order
RECURSIVE LoggedVulns(_)
LoggedVulns(log) ==
    IF log = <<>> THEN <<>>
    ELSE LET q == Head(log)
         IN  (IF q.ok THEN [i \in 1..Len(q.Vulns) |-> <<q.Name, q.Vulns[i].ID>>] ELSE <<>>)
             \o LoggedVulns(Tail(log))

ResultVulnIds(r) ==
    [i \in 1..Len(r.Vulnerabilities) |-> <<r.Vulnerabilities[i].Name, r.Vulnerabilities[i].ID>>]

\* a step in which QueryPackage returned an error
FailedQueryStep ==
    /\ Len(queryLog') = Len(queryLog) + 1
    /\ ~queryLog'[Len(queryLog')].ok

\* C2: in RunPythonAudit, RunGoAudit and RunMavenAudit a failed query for one
\* package leaves result.Error unset and the vulnerabilities and summary
\* aggregated so far unchanged, and the loop goes on: every package of the
\* list is queried, in order, and the result holds exactly the
\* vulnerabilities of the queries that succeeded.
C2_FailedQueryIsSkipped ==
    /\ [](aPc \in {"loop", "done"} /\ result.PackagesScanned > 0 =>
            /\ result.Error = NoError
            /\ Len(queryLog) = (IF aPc = "done" THEN Len(packages) ELSE pkgIdx - 1)
            /\ \A i \in 1..Len(queryLog) : queryLog[i].Name = packages[i].Name
            /\ ResultVulnIds(result) = LoggedVulns(queryLog)
            /\ result.Summary.Total = Len(LoggedVulns(queryLog)))
    /\ [][FailedQueryStep =>
            /\ result'.Error = NoError
            /\ result'.Vulnerabilities = result.Vulnerabilities
            /\ result'.Summary = result.Summary
            /\ (pkgIdx < Len(packages) => aPc' = "loop" /\ pkgIdx' = pkgIdx + 1)]_vars

\* a finished audit in which a query failed and a later package's query
\* returned vulnerabilities that were aggregated
C2_Witness ==
    /\ aPc = "done"
    /\ \E i, j \in 1..Len(queryLog) :
          /\ i < j
          /\ ~queryLog[i].ok
          /\ queryLog[j].ok
          /\ Len(queryLog[j].Vulns) > 0
    /\ Len(result.Vulnerabilities) > 0

\* the query sent for a package of the audit
QueryFor(pkg) == [Name |-> pkg.Name, Version |-> pkg.Version, Ecosystem |-> aEco]
Sent(q) == [Name |-> q.Name, Version |-> q.Version, Ecosystem |-> q.Ecosystem]

\* a step of the loop sends one query, for the package after the ones already
\* queried, and leaves the earlier queries as they are
OneQueryForNextPackage ==
    queryLog' # queryLog =>
        \/ aPc = "idle" /\ queryLog' = <<>>
        \/ /\ Len(queryLog') = Len(queryLog) + 1
           /\ SubSeq(queryLog', 1, Len(queryLog)) = queryLog
           /\ Len(queryLog') <= Len(packages)
           /\ Sent(queryLog'[Len(queryLog')]) = QueryFor(packages[Len(queryLog')])

\* C21: in each vulnerability-database-backed manifest audit the backend is
\* queried exactly once per extracted package, whether the query fails or
\* succeeds, in extraction order, one query at a time; no package is queried
\* a second time, and the vulnerabilities appear in the result grouped in
\* that same package order.
C21_OneQueryPerPackageInOrder ==
    /\ [](/\ Len(queryLog) <= Len(packages)
          /\ \A i \in 1..Len(queryLog) : Sent(queryLog[i]) = QueryFor(packages[i])
          /\ (aPc = "done" /\ result.PackagesScanned > 0) =>
                [i \in 1..Len(queryLog) |-> Sent(queryLog[i])]
                    = [i \in 1..Len(packages) |-> QueryFor(packages[i])]
          /\ ResultVulnIds(result) = LoggedVulns(queryLog))
    /\ [][OneQueryForNextPackage]_vars

\* a finished audit of two packages: the first query failed, the second
\* returned two vulnerabilities, and each package was queried once
C21_Witness ==
    /\ aPc = "done"
    /\ Len(packages) = 2
    /\ packages[1] # packages[2]
    /\ Len(queryLog) = 2
    /\ ~queryLog[1].ok
    /\ queryLog[2].ok /\ Len(queryLog[2].Vulns) = 2
    /\ Len(result.Vulnerabilities) = 2
    /\ result.Vulnerabilities[1].Name = packages[2].Name

\* manifest kinds the scanner detects for which no parser is registered
UnregisteredKinds ==
    {"package-lock.json", "yarn.lock", "pnpm-lock.yaml", "Pipfile.lock",
     "poetry.lock", "go.sum"}

\* C10: auditing a file of a detected kind without a registered parser yields
\* an empty result without an error, whichever of RunPythonAudit, RunGoAudit
\* and RunMavenAudit receives it.
C10_UnregisteredKindIsEmptyNoError ==
    (aPc = "done" /\ manifestType \in UnregisteredKinds) => result = EmptyResult

\* ====================================================================
\* Claims about the directory scanner (checked under SpecScan)
\* ====================================================================

\* the directories above p, the root among them
AncestorsOf(p) == {SubSeq(p, 1, k) : k \in 0..(Len(p) - 1)}
\* the directories strictly between the root and p
AncestorsBelowRoot(p) == AncestorsOf(p) \ {RootPath}
Range(seq) == {seq[i] : i \in 1..Len(seq)}
FilePaths == {Files[i].Path : i \in 1..Len(Files)}

NoIOErrors ==
    /\ root = [kind |-> "dir", err |-> "none"]
    /\ \A e \in entries : e.err = "none"

\* the manifests of the tree with no noise-named directory between the root
\* and themselves
ManifestsBelowRoot ==
    {e.path : e \in {x \in entries :
        /\ x.kind = "file"
        /\ BaseName(x.path) \in ManifestKinds
        /\ \A a \in AncestorsBelowRoot(x.path) : BaseName(a) \notin NoiseDirs}}

\* C4: for a valid root and a tree walked without I/O errors Scan returns,
\* exactly once each, the files whose base name equals an entry of the
\* manifest table and that have no noise-named directory between the root and
\* themselves, and nothing else, each with its base name as its kind.
C4_ScanReturnsExactlyTheManifests ==
    (sPc = "done" /\ NoIOErrors) =>
        /\ FilePaths = ManifestsBelowRoot
        /\ Len(Files) = Cardinality(ManifestsBelowRoot)
        /\ \A i \in 1..Len(Files) : Files[i].Type = BaseName(Files[i].Path)

\* what does hold: the same with the root counted among the directories whose
\* name prunes (a root named like a noise directory yields no file at all)
ScanReturnsTheManifestsOfAnUnprunedRoot ==
    (sPc = "done" /\ NoIOErrors) =>
        /\ FilePaths = IF rootName \in NoiseDirs THEN {} ELSE ManifestsBelowRoot
        /\ Len(Files) = Cardinality(FilePaths)
        /\ \A i \in 1..Len(Files) : Files[i].Type = BaseName(Files[i].Path)

\* the step in which New runs
NewStep == sPc = "build" /\ sPc' # "build"

\* New looks at the root once, before anything is visited; after a failed
\* New nothing is scanned; a Scan that ran returned a result and no error
ScanNeverFailsAfterNew ==
    /\ [](sPc \in {"build", "ready", "failed"} => visited = <<>> /\ Files = <<>>)
    /\ [](sPc = "failed" <=> newErr # NoError)
    /\ [](sPc = "done" => scanErr = NoError)

\* C5 as stated: New returns an error if and only if the root does not exist
\* or is not a directory, the check is made once before any entry is visited,
\* and after a successful New Scan never returns an error.
C5_NewFailsIffMissingOrNotDir ==
    /\ [][NewStep => (newErr' # NoError <=> (root.kind = "missing" \/ root.kind # "dir"))]_vars
    /\ ScanNeverFailsAfterNew

\* C5 as amended: New returns an error if and only if the stat of the root
\* fails (the root does not exist, or it cannot be accessed) or the root is
\* not a directory; the check is made once, before any entry is visited; and
\* once New has succeeded Scan returns a result and never an error, whatever
\* became of the root or the entries in between.
C5_NewFailsIffStatFailsOrNotDir ==
    /\ [][NewStep =>
            (newErr' # NoError <=>
                (root.kind = "missing" \/ root.err = "lstat" \/ root.kind # "dir"))]_vars
    /\ ScanNeverFailsAfterNew

\* a scan that returned its result although the root vanished after New
C5_Witness ==
    /\ sPc = "done"
    /\ newErr = NoError
    /\ root.kind = "missing"
    /\ scanErr = NoError
    /\ Errors = <<RootPath>>

\* p is reached by the walk: every directory above it can be read and has no
\* noise name
Walked(p) ==
    \A a \in AncestorsOf(p) :
        /\ OnDisk(a).kind = "dir"
        /\ OnDisk(a).err = "none"
        /\ BaseName(a) \notin NoiseDirs
\* the root and the entries now on disk
OnDiskPaths == {RootPath} \cup {e.path : e \in {x \in entries : root.kind = "dir"}}
\* the walked entries that raise an I/O error
FailingPaths ==
    {p \in OnDiskPaths : Walked(p) /\ (OnDisk(p).kind = "missing" \/ OnDisk(p).err # "none")}
\* the manifests in the readable, unpruned part of the tree
WalkedManifests ==
    {p \in OnDiskPaths :
        /\ Walked(p)
        /\ OnDisk(p).kind = "file"
        /\ OnDisk(p).err = "none"
        /\ BaseName(p) \in ManifestKinds}

PackagesOfLine(i) == {k \in 1..Len(rPackages) : rPackages[k].Line = i}

\* C7: for every line name-operator-version ParseRequirementsTxt emits exactly
\* one package with that name, whose version is the line's version when the
\* operator is == and empty for every other operator; a bare name yields one
\* package with empty version; packages are emitted in file order.
C7_VersionKeptOnlyForExactPin ==
    (rPc = "reading" \/ (rPc = "done" /\ rErr = NoError)) =>
        /\ \A i \in 1..Len(rLines) :
              rLines[i].kind \in {"spec", "bare"} =>
                  /\ Cardinality(PackagesOfLine(i)) = 1
                  /\ \A k \in PackagesOfLine(i) :
                        /\ rPackages[k].Name = rLines[i].name
                        /\ rPackages[k].Version =
                              IF rLines[i].op = <<"=", "=">> THEN rLines[i].version ELSE <<>>
        /\ \A k, l \in 1..Len(rPackages) : k < l => rPackages[k].Line < rPackages[l].Line

\* a parsed file whose first line pins a version with == and whose second
\* line gives a range: two packages, the first with the version, the second
\* without
C7_Witness ==
    /\ rPc = "done"
    /\ rErr = NoError
    /\ Len(rLines) = 2
    /\ rLines[1].kind = "spec" /\ rLines[1].op = <<"=", "=">>
    /\ rLines[2].kind = "spec" /\ rLines[2].op = <<"~", "=">>
    /\ Len(rPackages) = 2
    /\ rPackages[1].Version = rLines[1].version
    /\ rPackages[2].Version = <<>>

\* the kinds of line the parser is to pass over
SkippedKinds == {"blank", "comment", "include", "editable", "url"}

\* a step that reads a line neither ends the parse nor sets its error
LineNeverFailsParse == rLines' # rLines => (rErr' = NoError /\ rPc' = "reading")

\* C22: ParseRequirementsTxt emits no package for any line that is blank, a
\* comment, a file-include directive, an editable-install directive or a
\* URL-style entry, wherever the line occurs in the file, and a line it
\* cannot interpret is skipped without failing the parse.
C22_NoPackageForSkippedLines ==
    /\ [](\A i \in 1..Len(rLines) :
            rLines[i].kind \in SkippedKinds \cup {"malformed"} => PackagesOfLine(i) = {})
    /\ [][LineNeverFailsParse]_vars

\* the same without the include directive whose file name follows -r directly
NoPackageForSkippedLinesButAttachedInclude ==
    \A i \in 1..Len(rLines) :
        (/\ rLines[i].kind \in SkippedKinds \cup {"malformed"}
         /\ rLines[i].text # <<"-", "r", "b", ".", "t", "x", "t">>) => PackagesOfLine(i) = {}

\* the line -rb.txt yields a package named -rb.txt
AttachedIncludeIsEmitted ==
    \E i \in 1..Len(rLines) :
        /\ rLines[i].text = <<"-", "r", "b", ".", "t", "x", "t">>
        /\ \E k \in PackagesOfLine(i) : rPackages[k].Name = rLines[i].text

\* ====================================================================
\* Claims about the run and the npm backend (checked under SpecRun)
\* ====================================================================

\* main reached the formatter (it did not return early)
Formatted == runPc = "done" /\ message = ""

OsvResults == Range(pythonAuditResults) \cup Range(goAuditResults) \cup Range(mavenAuditResults)

\* every summary the run has produced so far
ProducedSummaries ==
    {r.Summary : r \in Range(auditResults)} \cup {r.Summary : r \in OsvResults}
    \cup (IF Formatted THEN {jsonOut.Summary} ELSE {})

\* C1: every VulnerabilitySummary the program produces has
\* total = critical + high + moderate + low + info: the summaries of the
\* Python, Go and Maven audits, the summary of an npm audit, and the aggregate
\* of the JSON formatter.
C1_SummaryTotalIsSumOfBuckets ==
    \A sum \in ProducedSummaries : sum.Total = SummaryBuckets(sum)

\* the part of C1 that the OSV audits keep: their summaries count one bucket
\* and the total for every vulnerability
OsvSummariesAddUp ==
    \A r \in OsvResults :
        /\ r.Summary.Total = SummaryBuckets(r.Summary)
        /\ r.Summary.Total = Len(r.Vulnerabilities)

\* ---- RunAudit
TimedOut(run) == run.deadline
NotInvoked(run) == ~run.deadline /\ run.err = "other"
Completed(run) == ~run.deadline /\ run.err \in {"nil", "ExitError"}

\* the count a summary holds for a key of metadata.vulnerabilities
SummaryCount(sum, key) ==
    CASE key = "info" -> sum.Info
      [] key = "low" -> sum.Low
      [] key = "moderate" -> sum.Moderate
      [] key = "high" -> sum.High
      [] key = "critical" -> sum.Critical
      [] key = "total" -> sum.Total

SummaryKeys == {"info", "low", "moderate", "high", "critical", "total"}

\* the returned summary and vulnerabilities are those of the document: every
\* count the document gives, zero for a count it does not give, and one
\* vulnerability for each entry of the map
CarriesParsedOutput(returned, stdout) ==
    /\ \A kv \in stdout.metadata : SummaryCount(returned.Summary, kv[1]) = kv[2]
    /\ \A key \in SummaryKeys :
          (\A kv \in stdout.metadata : kv[1] # key) => SummaryCount(returned.Summary, key) = 0
    /\ Len(returned.Vulnerabilities) = Cardinality(stdout.vulnerabilities)
    /\ {<<v.Name, v.Severity>> : v \in Range(returned.Vulnerabilities)} = stdout.vulnerabilities

\* C8 as stated: RunAudit sets the error only when the tool timed out or
\* could not be invoked; a run that completed, with a zero or a non-zero exit
\* code, gives a result without error that carries the parsed output.
C8_ErrorOnlyOnTimeoutOrInvocationFailure ==
    \A i \in 1..Len(npmRuns) :
        LET run == npmRuns[i].run
            returned == npmRuns[i].returned
        IN  /\ returned.Error # NoError => TimedOut(run) \/ NotInvoked(run)
            /\ Completed(run) => returned.Error = NoError
            /\ Completed(run) /\ run.stdout.valid => CarriesParsedOutput(returned, run.stdout)

\* C8 amended: RunAudit sets the error exactly when the tool timed out, could
\* not be invoked, or completed with a stdout that does not parse; a run that
\* completed, with a zero or a non-zero exit code, and whose stdout parses
\* gives a result without error that carries the parsed output.
C8_ErrorOnlyOnTimeoutInvocationOrParseFailure ==
    \A i \in 1..Len(npmRuns) :
        LET run == npmRuns[i].run
            returned == npmRuns[i].returned
        IN  /\ returned.Error # NoError <=>
                  \/ TimedOut(run)
                  \/ NotInvoked(run)
                  \/ (Completed(run) /\ ~run.stdout.valid)
            /\ Completed(run) /\ run.stdout.valid => CarriesParsedOutput(returned, run.stdout)
            /\ returned.Error # NoError =>
                  returned.Vulnerabilities = <<>> /\ returned.Summary = ZeroSummary

\* npm exited with a non-zero code after printing a report with two findings:
\* no error, both findings returned
C8_Witness ==
    \E i \in 1..Len(npmRuns) :
        /\ npmRuns[i].run.err = "ExitError"
        /\ Completed(npmRuns[i].run)
        /\ npmRuns[i].run.stdout = FindingsReport
        /\ npmRuns[i].returned.Error = NoError
        /\ Len(npmRuns[i].returned.Vulnerabilities) = 2
        /\ npmRuns[i].returned.Summary.Total = 2

\* ---- npm not installed
ScannedTypes == {scanned[i].Type : i \in 1..Len(scanned)}

NpmMissingAmongOthers ==
    /\ ~npmInstalled
    /\ "package.json" \in ScannedTypes
    /\ \E t \in ScannedTypes : ~IsNodeJSManifest(t)

\* the manifests the OSV loops audit
Auditable(files) ==
    {files[i] : i \in {j \in 1..Len(files) :
        files[j].Type \in {"requirements.txt", "Pipfile", "pyproject.toml", "go.mod", "pom.xml"}}}

\* C9: when npm is not installed and the scan found package.json files
\* together with manifests of another ecosystem, no npm audit is invoked, no
\* npm audit result is produced, the error flag is not set because of npm,
\* and every auditable Python, Go and Maven manifest is audited.
C9_NoNpmAuditWithoutNpm ==
    (NpmMissingAmongOthers /\ runPc # "start") =>
        /\ npmRuns = <<>>
        /\ auditResults = <<>>
        /\ hasErrors => \E r \in OsvResults : r.Error # NoError
        /\ Formatted =>
              \A f \in Auditable(scanned) : \E r \in OsvResults : r.ManifestPath = f.Path

\* what does hold without npm: the manifests of the other ecosystems are
\* all audited
OthersAuditedWithoutNpm ==
    (NpmMissingAmongOthers /\ Formatted) =>
        \A f \in Auditable(scanned) : \E r \in OsvResults : r.ManifestPath = f.Path

\* ====================================================================
\* Claims about audit results (checked under SpecRun)
\* ====================================================================

\* every audit result the run holds: what RunAudit returned, what main kept
\* of it, and the results of the Python, Go and Maven audits
AllAuditResults ==
    {npmRuns[i].returned : i \in 1..Len(npmRuns)} \cup Range(auditResults) \cup OsvResults

\* C11: in every audit result of every ecosystem, if the error is set then
\* the vulnerability list is empty and every summary count is zero (no error
\* is attached to a result that vulnerabilities were aggregated into).
C11_ErrorMeansEmptyResult ==
    \A r \in AllAuditResults :
        r.Error # NoError => r.Vulnerabilities = <<>> /\ r.Summary = ZeroSummary

\* a run in which an npm audit failed, a manifest failed to parse, and a
\* later audit met a failed query after it had aggregated a vulnerability
C11_Witness ==
    /\ \E r \in Range(auditResults) : r.Error # NoError
    /\ \E r \in OsvResults : r.Error # NoError
    /\ \E r \in OsvResults :
          r.Error = NoError /\ r.PackagesScanned = 2 /\ Len(r.Vulnerabilities) = 1

\* the manifests a run audits
AuditableTypes ==
    {"package.json", "requirements.txt", "Pipfile", "pyproject.toml", "go.mod", "pom.xml"}

\* how many results the run holds for the manifest at path
ResultCount(path) ==
    Cardinality({i \in 1..Len(auditResults) : auditResults[i].PackageJSONPath = path})
    + Cardinality({i \in 1..Len(pythonAuditResults) : pythonAuditResults[i].ManifestPath = path})
    + Cardinality({i \in 1..Len(goAuditResults) : goAuditResults[i].ManifestPath = path})
    + Cardinality({i \in 1..Len(mavenAuditResults) : mavenAuditResults[i].ManifestPath = path})

\* list grew from old by appending only
Extends(old, list) == Len(list) >= Len(old) /\ SubSeq(list, 1, Len(old)) = old

Severities == {"critical", "high", "moderate", "low", "info"}

\* C13: every vulnerability contained in any audit result, from the npm
\* backend or from the vulnerability-database backend, has a severity that is
\* one of critical, high, moderate, low, info, whatever the backend's output
\* contained or omitted.
C13_SeverityAlwaysDefined ==
    \A r \in AllAuditResults :
        \A v \in Range(r.Vulnerabilities) : v.Severity \in Severities

\* the part of C13 that holds: the vulnerabilities of the Python, Go and
\* Maven audits all carry a severity of the scale
OsvSeverityAlwaysDefined ==
    \A r \in OsvResults :
        \A v \in Range(r.Vulnerabilities) : v.Severity \in Severities

\* ====================================================================
\* Claims about ParsePomXML (checked under SpecPom)
\* ====================================================================

\* the positions of the document whose element has a non-empty <version>
Versioned == {i \in 1..Len(pomDoc) : pomDoc[i].version # <<>> /\ pomDoc[i].version # <<"">>}

\* the k-th position of Versioned, in document order
KthVersioned(k) == CHOOSE i \in Versioned : Cardinality({j \in Versioned : j < i}) = k - 1

\* C14: ParsePomXML returns, in document order, exactly the declared
\* dependencies whose version element is present and non-empty; every Maven
\* package handed to the backend has a non-empty version, and the
\* packages-scanned count of the result counts only versioned dependencies.
C14_OnlyVersionedDependencies ==
    (pomPc # "idle" /\ pomErr = NoError) =>
        /\ Len(pomDeps) = Cardinality(Versioned)
        /\ \A k \in 1..Len(pomDeps) :
              LET e == pomDoc[KthVersioned(k)]
              IN  /\ pomDeps[k].GroupID = e.groupId
                  /\ pomDeps[k].ArtifactID = e.artifactId
                  /\ pomDeps[k].Version = e.version[1]
                  /\ pomDeps[k].Scope = e.scope
        /\ \A q \in Range(queryLog) : q.Version # "" /\ q.Ecosystem = "Maven"
        /\ pomPc = "audited" => result.PackagesScanned = Cardinality(Versioned)
        /\ (pomPc = "audited" /\ aPc = "done") =>
              /\ Len(queryLog) = Cardinality(Versioned)
              /\ \A k \in 1..Len(queryLog) :
                    /\ queryLog[k].Name = <<pomDeps[k].GroupID, ":", pomDeps[k].ArtifactID>>
                    /\ queryLog[k].Version = pomDeps[k].Version

\* a pom.xml whose first dependency has no version and whose second has one:
\* one dependency returned, one package scanned and queried
C14_Witness ==
    /\ pomPc = "audited"
    /\ aPc = "done"
    /\ Len(pomDoc) = 2
    /\ pomDoc[1].version = <<>>
    /\ pomDoc[2].version = <<"2.14.1">>
    /\ Len(pomDeps) = 1
    /\ result.PackagesScanned = 1
    /\ Len(queryLog) = 1

\* ====================================================================
\* Claims about LevenshteinDistance (checked under SpecLev)
\* ====================================================================

\* the strings one insertion, deletion or substitution away from s, over the
\* folded alphabet and no longer than MaxLen
FoldedAlphabet == {ToLowerChar(c) : c \in LevAlphabet}

OneEdit(s) ==
    {SubSeq(s, 1, i - 1) \o SubSeq(s, i + 1, Len(s)) : i \in 1..Len(s)}
    \cup {[s EXCEPT ![i] = c] : i \in 1..Len(s), c \in FoldedAlphabet}
    \cup (IF Len(s) < MaxLen
          THEN {SubSeq(s, 1, i) \o <<c>> \o SubSeq(s, i + 1, Len(s)) :
                    i \in 0..Len(s), c \in FoldedAlphabet}
          ELSE {})

\* the least number of edits that lead from a string of reached to target
RECURSIVE EditSteps(_, _, _)
EditSteps(reached, target, k) ==
    IF target \in reached THEN k
    ELSE EditSteps(reached \cup UNION {OneEdit(s) : s \in reached}, target, k + 1)

\* the case-insensitive edit distance
EditDistance(a, b) == EditSteps({ToLower(a)}, ToLower(b), 0)

\* C16: LevenshteinDistance equals the case-insensitive edit distance; in
\* particular distance(s,s) = 0, distance(a,b) = distance(b,a),
\* distance(a,b) = 0 exactly when a and b are equal ignoring case, and
\* distance(a, "") is the length of a.
C16_LevenshteinIsEditDistance ==
    levPc = "returned" =>
        /\ levDistance = EditDistance(s1, s2)
        /\ levDistance = LevenshteinDistance(s2, s1)
        /\ s1 = s2 => levDistance = 0
        /\ levDistance = 0 <=> ToLower(s1) = ToLower(s2)
        /\ s2 = <<>> => levDistance = Len(s1)

\* the distance of "Aab" and "ba" was computed: the matrix was filled, and
\* two edits are needed
C16_Witness ==
    /\ levPc = "returned"
    /\ s1 = <<"A", "a", "b">>
    /\ s2 = <<"b", "a">>
    /\ levDistance = 2

\* ====================================================================
\* Claims about CheckTyposquatting (checked under SpecTypo)
\* ====================================================================

\* t when t > 0, and 2 otherwise
EffectiveThreshold(t) == IF t > 0 THEN t ELSE 2

CuratedEntries == Range(popularPackages)

\* some curated entry equals name ignoring case
ExactMatch(name) == \E entry \in CuratedEntries : ToLower(entry) = ToLower(name)

\* some curated entry is at most d edits from name
WithinDistance(name, d) == \E entry \in CuratedEntries : LevenshteinDistance(name, entry) <= d

\* C15: CheckTyposquatting(name, t) returns a risk if and only if no entry of
\* the curated list equals name ignoring case and the minimum edit distance
\* from name to the curated entries is at most the effective threshold (t
\* when t > 0, 2 otherwise); every returned risk has
\* 0 < distance <= effective threshold.
C15_RiskIffCloseAndNotExact ==
    typoPc = "returned" =>
        /\ typoRisk.found <=>
              /\ ~ExactMatch(packageName)
              /\ WithinDistance(packageName, EffectiveThreshold(threshold))
        /\ typoRisk.found =>
              /\ 0 < typoRisk.Distance
              /\ typoRisk.Distance <= EffectiveThreshold(threshold)
              /\ ~WithinDistance(packageName, typoRisk.Distance - 1)
              /\ typoRisk.PackageName = packageName

\* "reactt" checked with threshold 0: the default threshold applies and the
\* name is reported as one edit from react
C15_Witness ==
    /\ typoPc = "returned"
    /\ packageName = <<"r", "e", "a", "c", "t", "t">>
    /\ threshold = 0
    /\ typoRisk.found
    /\ typoRisk.Distance = 1
    /\ typoRisk.SimilarTo = <<"r", "e", "a", "c", "t">>

\* "React" checked with the largest threshold: an exact match ignoring case,
\* no risk
ExactMatchIsNoRisk ==
    (typoPc = "returned" /\ ExactMatch(packageName)) => ~typoRisk.found

\* ====================================================================
\* Claims about AnalyzeMaintainerRisk (checked under SpecMaint)
\* ====================================================================

\* the rules, stated on the arguments
Stale == metadata.LastModified # 0 /\ metadata.LastModified < now - 2
SingleMaintainer == Len(metadata.Maintainers) = 1
NoMaintainers == Len(metadata.Maintainers) = 0

\* one issue per triggered rule, in the order the rules are checked
TriggeredIssues ==
    (IF Stale THEN <<"Not updated in over 2 years">> ELSE <<>>)
    \o (IF SingleMaintainer THEN <<"Single maintainer">> ELSE <<>>)
    \o (IF NoMaintainers THEN <<"No maintainers listed">> ELSE <<>>)

\* C17: AnalyzeMaintainerRisk returns no object if and only if no rule
\* triggers (at least two maintainers, and last-modified unknown or within two
\* years); otherwise it returns exactly one issue per triggered rule and the
\* risk level "high" exactly when there are zero maintainers, "medium"
\* otherwise, never "low".
C17_MaintainerRiskFollowsRules ==
    maintPc = "returned" =>
        /\ ~maintRisk.found <=>
              /\ Len(metadata.Maintainers) >= 2
              /\ (metadata.LastModified = 0 \/ metadata.LastModified >= now - 2)
        /\ maintRisk.found =>
              /\ [i \in 1..Len(maintRisk.Issues) |-> maintRisk.Issues[i][1]] = TriggeredIssues
              /\ maintRisk.RiskLevel = (IF NoMaintainers THEN "high" ELSE "medium")
              /\ maintRisk.MaintainerCount = Len(metadata.Maintainers)

\* a package without maintainers, last modified more than two years before
\* the call: two issues, level "high"
C17_Witness ==
    /\ maintPc = "returned"
    /\ Stale
    /\ NoMaintainers
    /\ Len(maintRisk.Issues) = 2
    /\ maintRisk.RiskLevel = "high"

\* ====================================================================
\* Claims about FetchPackageMetadata (checked under SpecFetch)
\* ====================================================================

\* the calls for name that returned no error, in order
Succeeded(name) == {i \in 1..Len(fetches) : fetches[i].name = name /\ fetches[i].err = "nil"}
FirstSuccess(name) == CHOOSE i \in Succeeded(name) : \A k \in Succeeded(name) : i <= k

\* the cache holds exactly the names fetched with success, each with the
\* instance its first successful fetch returned; a later fetch of such a
\* name returns that instance and sends no request; a failed fetch sent one
CacheHoldsFirstSuccess ==
    /\ DOMAIN metadataCache = {name \in FetchedNames : Succeeded(name) # {}}
    /\ \A name \in DOMAIN metadataCache :
          metadataCache[name] = fetches[FirstSuccess(name)].metadata
    /\ \A i \in 1..Len(fetches) :
          LET name == fetches[i].name
          IN  IF \E k \in Succeeded(name) : k < i
              THEN /\ fetches[i].err = "nil"
                   /\ fetches[i].metadata = fetches[FirstSuccess(name)].metadata
                   /\ ~fetches[i].request
              ELSE fetches[i].request

\* a call keeps every entry as it is, and a failed call keeps the whole map
CacheOnlyGrows ==
    /\ \A name \in DOMAIN metadataCache :
          name \in DOMAIN metadataCache' /\ metadataCache'[name] = metadataCache[name]
    /\ (fetches' # fetches /\ fetches'[Len(fetches')].err # "nil") =>
          metadataCache' = metadataCache

\* C18: after any sequence of FetchPackageMetadata calls the cache holds
\* exactly the names for which some fetch has succeeded, each mapped to the
\* instance returned by its first successful fetch; a fetch of a cached name
\* returns that instance and performs no network request; entries are never
\* replaced or removed, and a failed fetch leaves the cache unchanged.
C18_CacheKeepsFirstFetch == [](CacheHoldsFirstSuccess) /\ [][CacheOnlyGrows]_vars

\* react is fetched (revision 1), lodash fails with a bad status, react is
\* fetched again while the registry has moved on: the first instance returns
C18_Witness ==
    /\ Len(fetches) = 3
    /\ fetches[1] = [name |-> "react", metadata |-> [ptr |-> 1, body |-> "revision 1"],
                     err |-> "nil", request |-> TRUE]
    /\ fetches[2].name = "lodash" /\ fetches[2].err = "status"
    /\ fetches[3] = [name |-> "react", metadata |-> [ptr |-> 1, body |-> "revision 1"],
                     err |-> "nil", request |-> FALSE]
    /\ DOMAIN metadataCache = {"react"}

\* ====================================================================
\* Claims about FilterBySeverity (checked under SpecFilter)
\* ====================================================================

\* the severities from the one of the given rank upwards, in the order
\* info < low < moderate < high < critical
SeverityOrder == <<"info", "low", "moderate", "high", "critical">>
RankOf(sev) == CHOOSE r \in 1..Len(SeverityOrder) : SeverityOrder[r] = sev
AtLeast(sev) == {SeverityOrder[r] : r \in RankOf(sev)..Len(SeverityOrder)}

\* the vulnerabilities of a list that carry one of the five severities
Ranked(list) == SelectSeq(list, LAMBDA v : v.Severity \in SeverityConstants)

\* C19: for every list of vulnerabilities and every minimum severity in
\* {info, low, moderate, high, critical}, FilterBySeverity returns, in the
\* original order, exactly the vulnerabilities whose severity rank is at least
\* the rank of the minimum; raising the minimum never adds an element, and the
\* input list is not modified.  (A vulnerability whose severity is none of
\* the five has no rank: the statement is about the others, and the returned
\* list holds nothing that was not given.)
C19_FilterKeepsRankAtLeastMinimum ==
    /\ [](filterPc = "returned" =>
            /\ Ranked(filtered)
                  = SelectSeq(Ranked(unfiltered), LAMBDA v : v.Severity \in AtLeast(minimum))
            /\ filtered = SelectSeq(unfiltered, LAMBDA v : v \in Range(filtered))
            /\ \A higher \in AtLeast(minimum) :
                  Range(FilterBySeverity(unfiltered, higher)) \subseteq Range(filtered))
    /\ [][unfiltered' = unfiltered]_vars

\* low, critical, moderate filtered with the minimum moderate: critical and
\* moderate are returned, in that order
C19_Witness ==
    /\ filterPc = "returned"
    /\ unfiltered = Listed(<<"low", "critical", "moderate">>)
    /\ minimum = "moderate"
    /\ filtered = <<[Name |-> 2, Severity |-> "critical"], [Name |-> 3, Severity |-> "moderate"]>>

\* a vulnerability without a severity is returned only for the minimum info
UnratedKeptOnlyAtInfo ==
    filterPc = "returned" =>
        \A v \in Range(unfiltered) :
            v.Severity = "" => (v \in Range(filtered) <=> minimum = "info")

\* ====================================================================
\* Claims about the --severity flag (checked under SpecRun)
\* ====================================================================

\* the severity a documented value of the flag stands for: "medium" is the
\* level the package calls moderate
FlagSeverity(flag) == IF flag = "medium" THEN "moderate" ELSE flag

\* the npm vulnerabilities the run reports that carry one of the five severities
ReportedRanked ==
    UNION {{v \in Range(auditResults[i].Vulnerabilities) : v.Severity \in SeverityConstants} :
              i \in 1..Len(auditResults)}

\* C20: for each minimum-severity value the command line documents as accepted
\* (critical, high, medium, low), the reported npm vulnerability list contains
\* no vulnerability ranked below that level; with "medium" no vulnerability of
\* severity low or info is reported.
C20_NothingReportedBelowFlag ==
    \A v \in ReportedRanked : v.Severity \in AtLeast(FlagSeverity(severity))

\* the same for the values of the flag that are Severity constants
NothingReportedBelowKnownFlag ==
    severity \in SeverityConstants =>
        \A v \in ReportedRanked : v.Severity \in AtLeast(severity)

\* the run with --severity medium reports a vulnerability of severity low
LowReportedWithMedium ==
    /\ severity = "medium"
    /\ \E v \in ReportedRanked : v.Severity = "low"

\* ====================================================================
\* Claims about the line-oriented manifest parsers (checked under SpecManifest)
\* ====================================================================

RECURSIVE Flatten(_)
Flatten(seqs) == IF seqs = <<>> THEN <<>> ELSE Head(seqs) \o Flatten(Tail(seqs))

\* the parser's result is visible: it is still scanning, or it returned its list
ResultOf(filename) == parsing = filename /\ mfPc # "idle" /\ mfErr = NoError

\* the most recent section header before line i is [packages]
UnderPackages(lines, i) ==
    LET headers == {j \in 1..(i - 1) : lines[j].kind = "header"}
    IN  /\ headers # {}
        /\ lines[CHOOSE j \in headers : \A other \in headers : other <= j].name = <<"p", "a", "c", "k", "a", "g", "e", "s">>

\* what ParsePipfile is to emit for line i, by the tags of the lines
PipfileExpected(lines, i) ==
    IF UnderPackages(lines, i) /\ lines[i].kind \in {"pin", "any"}
    THEN <<[Name |-> lines[i].name, Version |-> lines[i].version, Line |-> i]>>
    ELSE <<>>

\* C23: ParsePipfile emits a package for a line if and only if the most
\* recent section header before it is [packages] and the line is an exact pin
\* (name = "==X", version X) or a wildcard (name = "*", empty version); lines
\* before any header or under another section emit nothing, and a later
\* [packages] header re-enters the section.
C23_PipfilePackagesSectionOnly ==
    ResultOf("Pipfile") =>
        mfPackages = Flatten([i \in 1..Len(mfLines) |-> PipfileExpected(mfLines, i)])

\* every pinned version of the file is made of digits and dots
NumericPins(lines) ==
    \A i \in 1..Len(lines) :
        lines[i].kind = "pin" => \A k \in 1..Len(lines[i].version) :
                                     lines[i].version[k] \in Digits \cup {"."}

\* the section tracking and both entry forms behave as stated when every
\* pinned version is numeric
PipfileSectionOnlyForNumericPins ==
    (ResultOf("Pipfile") /\ NumericPins(mfLines)) =>
        mfPackages = Flatten([i \in 1..Len(mfLines) |-> PipfileExpected(mfLines, i)])

\* [packages] is entered after another section and its pin is emitted
PipfileSectionReentered ==
    /\ ResultOf("Pipfile") /\ mfPc = "done"
    /\ Len(mfLines) = 3 /\ Len(mfPackages) = 1
    /\ mfLines[1].name = <<"d", "e", "v", "-", "p", "a", "c", "k", "a", "g", "e", "s">>
    /\ mfLines[2].name = <<"p", "a", "c", "k", "a", "g", "e", "s">>
    /\ mfLines[3].kind = "pin"

\* a pre-release pinned under [packages] and nothing emitted
PreReleasePinDropped ==
    /\ ResultOf("Pipfile") /\ mfPc = "done"
    /\ Len(mfLines) = 2 /\ mfPackages = <<>>
    /\ mfLines[1].name = <<"p", "a", "c", "k", "a", "g", "e", "s">>
    /\ mfLines[2].name = <<"u", "v", "l", "o", "o", "p">>

\* a dependency array is open when line i starts: the last line before it
\* that holds an array bracket opens an array and does not close it
ArrayOpenBefore(lines, i) ==
    LET brackets == {j \in 1..(i - 1) : lines[j].opens \/ lines[j].closes}
        last == CHOOSE j \in brackets : \A other \in brackets : other <= j
    IN  brackets # {} /\ lines[last].opens /\ ~lines[last].closes

PyprojectPackage(r, i) ==
    [Name |-> r.name, Version |-> IF r.op = <<"=", "=">> THEN r.version ELSE <<>>, Line |-> i]

\* what ParsePyprojectToml is to emit for line i, by the tags of the lines:
\* one package for each quoted requirement from the opening line on
PyprojectExpected(lines, i) ==
    IF lines[i].opens \/ ArrayOpenBefore(lines, i)
    THEN [k \in 1..Len(lines[i].strings) |-> PyprojectPackage(lines[i].strings[k], i)]
    ELSE <<>>

\* C24: ParsePyprojectToml emits exactly one package for each quoted
\* name-operator-version string inside a dependency array, from the line that
\* opens the array to the bracket that closes it, with the version kept only
\* for the operator ==, and nothing for lines outside any dependency array.
C24_PyprojectOnePackagePerString ==
    ResultOf("pyproject.toml") =>
        mfPackages = Flatten([i \in 1..Len(mfLines) |-> PyprojectExpected(mfLines, i)])

\* every requirement stands on a line of its own, without brackets
OneRequirementPerLine(lines) ==
    \A i \in 1..Len(lines) :
        lines[i].strings # <<>> =>
            /\ ~lines[i].opens
            /\ ~Contains(lines[i].text, <<"[">>)
            /\ ~Contains(lines[i].text, <<"]">>)

\* the array tracking behaves as stated when the array is written one
\* requirement per line and no requirement names an extra
PyprojectOnePackagePerOwnLine ==
    (ResultOf("pyproject.toml") /\ OneRequirementPerLine(mfLines)) =>
        mfPackages = Flatten([i \in 1..Len(mfLines) |-> PyprojectExpected(mfLines, i)])

\* an array of two lines, an exact and a ranged requirement, both emitted
PyprojectArrayParsed ==
    /\ ResultOf("pyproject.toml") /\ mfPc = "done"
    /\ Len(mfLines) = 3 /\ Len(mfPackages) = 2
    /\ mfPackages[1].Version = <<"2", ".", "0", ".", "1">>
    /\ mfPackages[2].Version = <<>>

\* an array written on one line and nothing emitted
SingleLineArrayDropped ==
    /\ ResultOf("pyproject.toml") /\ mfPc = "done"
    /\ Len(mfLines) = 1 /\ mfPackages = <<>>
    /\ mfLines[1].opens /\ mfLines[1].closes /\ mfLines[1].strings # <<>>

\* line i stands inside a require ( ... ) block: the last block delimiter
\* before it opens a block
InRequireBlock(lines, i) ==
    LET delimiters == {j \in 1..(i - 1) : lines[j].kind \in {"open", "close"}}
    IN  /\ delimiters # {}
        /\ lines[CHOOSE j \in delimiters : \A other \in delimiters : other <= j].kind = "open"

\* no single-line require statement is nested in a require block
RequiresNotNested(lines) ==
    \A i \in 1..Len(lines) : lines[i].kind = "single" => ~InRequireBlock(lines, i)

\* what ParseGoMod is to emit for line i, by the tags of the lines
GoModExpected(lines, i) ==
    IF lines[i].kind = "single" \/ (lines[i].kind = "entry" /\ InRequireBlock(lines, i))
    THEN <<[Name |-> lines[i].path, Version |-> lines[i].version, Line |-> i]>>
    ELSE <<>>

ListDistances(name) ==
    [i \in 1..Len(popularPackages) |-> LevenshteinDistance(name, popularPackages[i])]

\* C26: every risk CheckTyposquatting returns reports as distance the
\* minimum edit distance over the whole list, as similarTo the earliest entry
\* in list order attaining it, as packageName the input unchanged, and as
\* confidence "high" for distance 1, "medium" for 2 and "low" above 2.
C26_RiskNamesFirstClosestEntry ==
    (typoPc = "returned" /\ typoRisk.found) =>
        LET distance == ListDistances(packageName)
            least == MinOf({distance[i] : i \in DOMAIN distance})
            first == CHOOSE i \in DOMAIN distance :
                         distance[i] = least /\ \A k \in 1..(i - 1) : distance[k] # least
        IN  /\ typoRisk.Distance = least
            /\ typoRisk.SimilarTo = popularPackages[first]
            /\ typoRisk.PackageName = packageName
            /\ typoRisk.Confidence = CASE least = 1 -> "high"
                                       [] least = 2 -> "medium"
                                       [] OTHER -> "low"

\* sess is one edit from sass and from less: the earlier entry is reported
C26_Witness ==
    /\ typoPc = "returned" /\ typoRisk.found
    /\ packageName = <<"s", "e", "s", "s">>
    /\ typoRisk.SimilarTo = <<"s", "a", "s", "s">>
    /\ typoRisk.Distance = 1
    /\ typoRisk.Confidence = "high"

\* ====================================================================
\* Claims about the severities of an OSV-backed audit (checked under SpecAudit)
\* ====================================================================

\* C27: in every Python, Go and Maven audit result, after any sequence of
\* package responses, the summary total is the number of vulnerabilities in
\* the list and every vulnerability is rated "high", with or without an
\* alias: the high count is the total and the other counts are 0.
C27_EveryOsvVulnerabilityIsHigh ==
    /\ result.Summary.Total = Len(result.Vulnerabilities)
    /\ \A i \in 1..Len(result.Vulnerabilities) : result.Vulnerabilities[i].Severity = "high"
    /\ result.Summary.High = result.Summary.Total
    /\ result.Summary.Critical = 0
    /\ result.Summary.Moderate = 0
    /\ result.Summary.Low = 0
    /\ result.Summary.Info = 0

\* a result holding a vulnerability without alias and one with a CVE alias
C27_Witness ==
    /\ aPc = "done"
    /\ \E i, k \in 1..Len(result.Vulnerabilities) :
           /\ result.Vulnerabilities[i].Aliases = <<>>
           /\ result.Vulnerabilities[k].Aliases = <<"", "CVE-1">>
    /\ result.Summary.High = Len(result.Vulnerabilities)

\* ====================================================================
\* Claims about extractFixVersions (checked under SpecFix)
\* ====================================================================

\* the events of a vulnerability in the order of its affected entries, their
\* ranges and the events of each range
EventsOf(affected) == Flatten(Flatten(affected))

\* the place of the first event that fixes version v
FirstFixed(events, v) ==
    CHOOSE i \in 1..Len(events) :
        events[i].Fixed = v /\ \A k \in 1..(i - 1) : events[k].Fixed # v

\* C28: extractFixVersions returns each distinct non-empty "fixed" value
\* found in any affected range exactly once, in order of first occurrence;
\* "introduced" and "last_affected" events contribute nothing, and a
\* vulnerability without a fixed event yields an empty list.
C28_FixedVersionsOnceInFirstOrder ==
    fixPc = "returned" =>
        LET events == EventsOf(fixVuln)
        IN  /\ {fixVersions[i] : i \in 1..Len(fixVersions)}
                 = {events[i].Fixed : i \in 1..Len(events)} \ {""}
            /\ \A i, k \in 1..Len(fixVersions) :
                   i < k => /\ fixVersions[i] # fixVersions[k]
                            /\ FirstFixed(events, fixVersions[i])
                                 < FirstFixed(events, fixVersions[k])

\* 2.0 fixed in two affected entries and 1.0 in a later range: 2.0 once, first
C28_Witness ==
    /\ fixPc = "returned"
    /\ Len(fixVuln) = 2
    /\ EventsOf(fixVuln) = <<Event("", "2.0", ""), Event("", "2.0", ""), Event("", "1.0", "")>>
    /\ fixVersions = <<"2.0", "1.0">>

\* only introduced and last-affected events, and an empty list returned
NoFixedEventNoVersion ==
    /\ fixPc = "returned"
    /\ Len(EventsOf(fixVuln)) = 2
    /\ \A i \in 1..2 : EventsOf(fixVuln)[i].Fixed = ""
    /\ fixVersions = <<>>

\* ====================================================================
\* Claims about the totals of a run (checked under SpecRun)
\* ====================================================================

\* the sum of the summary totals of a list of audit results
RECURSIVE SumOfTotals(_)
SumOfTotals(results) ==
    IF results = <<>> THEN 0 ELSE Head(results).Summary.Total + SumOfTotals(Tail(results))

\* C29: at the end of every run the total handed to the rendering layer is
\* the sum of the per-manifest summary totals over the results of all four
\* ecosystems and is the total of the aggregate summary of the JSON output;
\* the minimum-severity filter shortens only the npm vulnerability lists and
\* changes no summary count and not the total.
C29_TotalIsSumOfManifestTotals ==
    Formatted =>
        /\ jsonOut.TotalVulns = totalVulnerabilities
        /\ totalVulnerabilities =
               SumOfTotals(auditResults) + SumOfTotals(pythonAuditResults)
               + SumOfTotals(goAuditResults) + SumOfTotals(mavenAuditResults)
        /\ jsonOut.Summary.Total = totalVulnerabilities
        /\ Len(auditResults) = Len(npmRuns)
        /\ \A i \in 1..Len(auditResults) :
               /\ auditResults[i].Summary = npmRuns[i].returned.Summary
               /\ Len(auditResults[i].Vulnerabilities)
                      <= Len(npmRuns[i].returned.Vulnerabilities)
               /\ Range(auditResults[i].Vulnerabilities)
                      \subseteq Range(npmRuns[i].returned.Vulnerabilities)

\* a run whose filter removed an npm vulnerability and whose Python audit
\* found one: both are in the total
C29_Witness ==
    /\ Formatted
    /\ \E i \in 1..Len(auditResults) :
           /\ Len(auditResults[i].Vulnerabilities) < Len(npmRuns[i].returned.Vulnerabilities)
           /\ auditResults[i].Summary.Total > 0
    /\ \E r \in OsvResults : r.Summary.Total > 0
    /\ jsonOut.TotalVulns > SumOfTotals(auditResults)

\* ====================================================================
\* Claims about GenerateSecurityReport (checked under SpecReport)
\* ====================================================================

\* the overall level as stated: high for a high typosquatting confidence, a
\* high maintainer risk or a high-rated install script, else medium for any
\* finding, else low
StatedRiskLevel(r) ==
    IF \/ r.TyposquattingRisk.found /\ r.TyposquattingRisk.Confidence = "high"
       \/ r.MaintainerRisk.found /\ r.MaintainerRisk.RiskLevel = "high"
       \/ \E i \in 1..Len(r.SuspiciousPatterns) : r.SuspiciousPatterns[i].RiskLevel = "high"
    THEN "high"
    ELSE IF \/ r.TyposquattingRisk.found
            \/ r.MaintainerRisk.found
            \/ Len(r.SuspiciousPatterns) > 0
    THEN "medium"
    ELSE "low"

\* C30: GenerateSecurityReport terminates and returns a report for every
\* package name and manifest path: a failed metadata fetch or a failed
\* install-script detection only leaves that section empty, and the overall
\* level is "high" for a high typosquatting confidence, a high maintainer
\* risk or a high-rated install script, otherwise "medium" if any finding
\* exists, otherwise "low".
C30_ReportAlwaysReturned ==
    /\ reportPc # "panicked"
    /\ reportPc = "returned" =>
           /\ report.PackageName = packageName
           /\ report.OverallRiskLevel = StatedRiskLevel(report)

\* the call for a name close to no popular package, with a failed fetch,
\* ended in a panic
ReportPanicked ==
    /\ reportPc = "panicked"
    /\ ~report.TyposquattingRisk.found
    /\ ~report.MaintainerRisk.found

\* no call returns a report
NoReportReturned == reportPc # "returned"

====
